---------------------------- MODULE Spec2Model ----------------------------
(***************************************************************************)
(* A model of the PyWA MCP server: module initialisation (server.py), the  *)
(* tool registration (tools/__init__.py) and the 18 tool handlers          *)
(* (tools/messaging.py, tools/interactive.py, tools/templates.py).         *)
(*                                                                         *)
(* Python values are tagged records, so that len(), truthiness, the `in`   *)
(* operator, subscripting and str() behave as they do in Python, type      *)
(* errors included.  A handler is an operator from its arguments and the   *)
(* outcome the transport would produce to a completion: the value it       *)
(* returns (or the exception it lets escape), the transport calls it made  *)
(* and the lines it logged.                                                *)
(***************************************************************************)
EXTENDS Integers, Sequences, FiniteSets, TLC

VARIABLES
    environ,    \* os.environ: the two credentials
    pc,         \* position of server.py's module-level code
    wa_client,  \* server.py's global client handle
    registry,   \* names registered with mcp.tool(), in registration order
    escaped,    \* the exception that escaped module initialisation, or None
    log,        \* the lines handed to the loggers
    request,    \* the tool call the host has issued and not yet dispatched
    inflight,   \* the tool calls in flight at once, in order of arrival
    returned    \* completed tool calls, oldest first

vars ==
    <<environ, pc, wa_client, registry, escaped, log, request, inflight,
      returned>>

-----------------------------------------------------------------------------
(* Python values *)

None == [t |-> "None"]
Str(s) == [t |-> "str", s |-> s]
Bool(b) == [t |-> "bool", b |-> b]
PyInt(n) == [t |-> "int", n |-> n]
List(items) == [t |-> "list", items |-> items]
Dict(kv) == [t |-> "dict", kv |-> kv]
\* An instance of a class: its attributes, its truth value and its str().
Obj(cls, attrs, truthy, repr) ==
    [t |-> "obj", cls |-> cls, attrs |-> attrs, truthy |-> truthy, repr |-> repr]

\* The type names Python prints in its TypeError and AttributeError messages.
TypeName(x) ==
    CASE x.t = "None" -> "NoneType"
      [] x.t = "obj" -> x.cls
      [] OTHER -> x.t

\* An exception instance: its class and str(e).
Exc(cls, msg) == [cls |-> cls, msg |-> msg]

\* The result of evaluating an expression: a value or a raised exception.
Val(v) == [ok |-> TRUE, v |-> v]
Raise(cls, msg) == [ok |-> FALSE, exc |-> Exc(cls, msg)]

\* c repeated n times: Python's c * n.
RECURSIVE Rep(_, _)
Rep(c, n) ==
    IF n = 0 THEN ""
    ELSE LET half == Rep(c, n \div 2)
         IN  IF n % 2 = 0 THEN half \o half ELSE half \o half \o c

\* Python's `sub in s` for two strings.
IsSubstring(sub, s) ==
    \E i \in 1..(Len(s) - Len(sub) + 1) : SubSeq(s, i, i + Len(sub) - 1) = sub

\* len(x)
py_len(x) ==
    CASE x.t = "str" -> Val(Len(x.s))
      [] x.t = "list" -> Val(Len(x.items))
      [] x.t = "dict" -> Val(Cardinality(DOMAIN x.kv))
      [] OTHER -> Raise("TypeError",
                        "object of type '" \o TypeName(x) \o "' has no len()")

\* bool(x)
py_bool(x) ==
    CASE x.t = "None" -> FALSE
      [] x.t = "bool" -> x.b
      [] x.t = "int" -> x.n # 0
      [] x.t = "str" -> x.s # ""
      [] x.t = "list" -> x.items # <<>>
      [] x.t = "dict" -> DOMAIN x.kv # {}
      [] x.t = "obj" -> x.truthy

\* key in x, for a string key
py_in(key, x) ==
    CASE x.t = "dict" -> Val(key \in DOMAIN x.kv)
      [] x.t = "str" -> Val(IsSubstring(key, x.s))
      [] x.t = "list" -> Val(\E i \in 1..Len(x.items) : x.items[i] = Str(key))
      [] OTHER -> Raise("TypeError",
                        "argument of type '" \o TypeName(x) \o "' is not iterable")

\* x[key], for a string key
py_getitem(x, key) ==
    CASE x.t = "dict" ->
           IF key \in DOMAIN x.kv THEN Val(x.kv[key])
           ELSE Raise("KeyError", "'" \o key \o "'")
      [] x.t = "str" -> Raise("TypeError", "string indices must be integers")
      [] x.t = "list" ->
           Raise("TypeError", "list indices must be integers or slices, not str")
      [] OTHER -> Raise("TypeError",
                        "'" \o TypeName(x) \o "' object is not subscriptable")

\* x.get(key, default)
py_get(x, key, default) ==
    IF x.t = "dict"
    THEN Val(IF key \in DOMAIN x.kv THEN x.kv[key] ELSE default)
    ELSE Raise("AttributeError",
               "'" \o TypeName(x) \o "' object has no attribute 'get'")

\* The items a for loop visits: the elements of a list, the characters of a
\* string.  (Dictionaries are never iterated by the handlers on the payloads
\* modelled here.)
py_iter(x) ==
    CASE x.t = "list" -> Val(x.items)
      [] x.t = "str" -> Val([i \in 1..Len(x.s) |-> Str(SubSeq(x.s, i, i))])
      [] x.t \in {"None", "int", "bool", "obj"} ->
           Raise("TypeError", "'" \o TypeName(x) \o "' object is not iterable")

\* str(x), for the values the transport returns and the handlers format.
py_str(x) ==
    CASE x.t = "str" -> x.s
      [] x.t = "None" -> "None"
      [] x.t = "bool" -> IF x.b THEN "True" ELSE "False"
      [] x.t = "int" -> ToString(x.n)
      [] x.t = "obj" -> x.repr

\* getattr(x, name, default): only class instances carry attributes here.
py_getattr(x, name, default) ==
    IF x.t = "obj" /\ name \in DOMAIN x.attrs THEN x.attrs[name] ELSE default

-----------------------------------------------------------------------------
(* pywa's data classes: plain attribute holders, always truthy *)

DataObj(cls, attrs) == [t |-> "obj", cls |-> cls, attrs |-> attrs, truthy |-> TRUE]

Button(title, callback_data) ==
    DataObj("Button", [title |-> title, callback_data |-> callback_data])

SectionRow(title, callback_data, description) ==
    DataObj("SectionRow", [title |-> title, callback_data |-> callback_data,
                           description |-> description])

Section(title, rows) == DataObj("Section", [title |-> title, rows |-> List(rows)])

SectionList(button_title, sections) ==
    DataObj("SectionList", [button_title |-> button_title,
                            sections |-> List(sections)])

Contact(formatted_name, phone) ==
    DataObj("Contact",
            [name |-> DataObj("Name", [formatted_name |-> formatted_name]),
             phones |-> List(<<DataObj("Phone", [phone |-> phone])>>)])

-----------------------------------------------------------------------------
(* Completions of a handler body, and the envelope every handler builds *)

\* One call of a wa_client method, with the outcome the transport gave it.
TransportCall(method, kwargs, outcome) ==
    [method |-> method, kwargs |-> kwargs, outcome |-> outcome]

Info(msg) == [level |-> "INFO", msg |-> msg]
Error(msg) == [level |-> "ERROR", msg |-> msg]

\* The body ran to a return statement.
Return(value, sent, lines) ==
    [kind |-> "return", value |-> value, sent |-> sent, log |-> lines]
\* The body raised.
Raised(exc, sent, lines) ==
    [kind |-> "raise", exc |-> exc, sent |-> sent, log |-> lines]

\* {"success": False, "error": msg}
Failure(msg) == Dict([success |-> Bool(FALSE), error |-> Str(msg)])

\* Python's exception hierarchy, as far as the handlers meet it: the classes
\* below derive from Exception; KeyboardInterrupt, SystemExit and
\* CancelledError derive from BaseException only.
ExceptionClasses ==
    {"Exception", "TypeError", "KeyError", "AttributeError", "ValueError",
     "WhatsAppError", "TimeoutError"}

\* A mutation of the except clause: only the configuration error is caught.
IsExceptionValueErrorOnly(cls) == cls = "ValueError"

\* isinstance(e, Exception): what `except Exception` catches.
IsException(cls) == cls \in ExceptionClasses

\* A mutation of the except clause: a call that raised is made once more
\* before the failure is reported.
try_except_retry(body, what) ==
    IF body.kind = "raise" /\ IsException(body.exc.cls)
    THEN Return(Failure(body.exc.msg), body.sent \o body.sent,
                body.log \o <<Error(what \o ": " \o body.exc.msg)>>)
    ELSE body

\* try: <body> except Exception as e: logger.error(f"{what}: {str(e)}");
\* return {"success": False, "error": str(e)}
try_except(body, what) ==
    IF body.kind = "raise" /\ IsException(body.exc.cls)
    THEN Return(Failure(body.exc.msg), body.sent,
                body.log \o <<Error(what \o ": " \o body.exc.msg)>>)
    ELSE body

\* A mutation of the extraction: the identifier field is looked up before the
\* truth value of the result is tested.
extract_message_id_attr_first(result) ==
    IF result.t = "obj" /\ "id" \in DOMAIN result.attrs THEN result.attrs["id"]
    ELSE IF py_bool(result) THEN Str(py_str(result)) ELSE None

\* getattr(result, 'id', str(result)) if result else None
extract_message_id(result) ==
    IF py_bool(result) THEN py_getattr(result, "id", Str(py_str(result)))
    ELSE None

\* str(result) if result else None
result_data(result) == IF py_bool(result) THEN Str(py_str(result)) ELSE None

\* The body shared by the handlers that call one wa_client method and report
\* the message id: the call, the info line, the success envelope.
send_body(method, kwargs, outcome, line, extra) ==
    LET call == TransportCall(method, kwargs, outcome)
    IN  IF outcome.kind = "raise"
        THEN Raised(outcome.exc, <<call>>, <<>>)
        ELSE Return(Dict([success |-> Bool(TRUE),
                          message_id |-> extract_message_id(outcome.value)]
                         @@ extra),
                    <<call>>, <<Info(line)>>)

\* The same for the handlers that report str(result) as "result".
status_body(method, kwargs, outcome, line) ==
    LET call == TransportCall(method, kwargs, outcome)
    IN  IF outcome.kind = "raise"
        THEN Raised(outcome.exc, <<call>>, <<>>)
        ELSE Return(Dict([success |-> Bool(TRUE),
                          result |-> result_data(outcome.value)]),
                    <<call>>, <<Info(line)>>)

NoExtra == [k \in {} |-> None]

-----------------------------------------------------------------------------
(* tools/messaging.py: each handler takes its arguments a (a record of      *)
(* Python values) and the outcome of the transport call it may make         *)

\* A mutation of send_message: the handler keeps an error state shared by
\* all calls, and refuses to send once any call has failed.
send_message_shared_error(a, outcome) ==
    IF \E i \in 1..Len(returned) :
           /\ returned[i].kind = "return"
           /\ returned[i].value.kv["success"] = Bool(FALSE)
    THEN Return(Failure("a previous call failed"), <<>>, <<>>)
    ELSE try_except(
             send_body("send_message",
                       [to |-> a.to, text |-> a.text, header |-> a.header,
                        footer |-> a.footer, preview_url |-> a.preview_url,
                        reply_to_message_id |-> a.reply_to_message_id],
                       outcome,
                       "Message sent to " \o py_str(a.to),
                       [to |-> a.to]),
             "Failed to send message")

send_message(a, outcome) ==
    try_except(
        send_body("send_message",
                  [to |-> a.to,
                   text |-> a.text,
                   header |-> a.header,
                   footer |-> a.footer,
                   preview_url |-> a.preview_url,
                   reply_to_message_id |-> a.reply_to_message_id],
                  outcome, "Message sent to " \o py_str(a.to), [to |-> a.to]),
        "Failed to send message")

send_image(a, outcome) ==
    try_except(
        send_body("send_image",
                  [to |-> a.to,
                   image |-> a.image,
                   caption |-> a.caption,
                   footer |-> a.footer,
                   reply_to_message_id |-> a.reply_to_message_id],
                  outcome, "Image sent to " \o py_str(a.to), NoExtra),
        "Failed to send image")

send_video(a, outcome) ==
    try_except(
        send_body("send_video",
                  [to |-> a.to,
                   video |-> a.video,
                   caption |-> a.caption,
                   footer |-> a.footer,
                   reply_to_message_id |-> a.reply_to_message_id],
                  outcome, "Video sent to " \o py_str(a.to), NoExtra),
        "Failed to send video")

send_document(a, outcome) ==
    try_except(
        send_body("send_document",
                  [to |-> a.to,
                   document |-> a.document,
                   filename |-> a.filename,
                   caption |-> a.caption,
                   footer |-> a.footer,
                   reply_to_message_id |-> a.reply_to_message_id],
                  outcome, "Document sent to " \o py_str(a.to), NoExtra),
        "Failed to send document")

send_audio(a, outcome) ==
    try_except(
        send_body("send_audio",
                  [to |-> a.to,
                   audio |-> a.audio,
                   reply_to_message_id |-> a.reply_to_message_id],
                  outcome, "Audio sent to " \o py_str(a.to), NoExtra),
        "Failed to send audio")

send_sticker(a, outcome) ==
    try_except(
        send_body("send_sticker",
                  [to |-> a.to,
                   sticker |-> a.sticker,
                   reply_to_message_id |-> a.reply_to_message_id],
                  outcome, "Sticker sent to " \o py_str(a.to), NoExtra),
        "Failed to send sticker")

send_location(a, outcome) ==
    try_except(
        send_body("send_location",
                  [to |-> a.to,
                   latitude |-> a.latitude,
                   longitude |-> a.longitude,
                   name |-> a.name,
                   address |-> a.address,
                   reply_to_message_id |-> a.reply_to_message_id],
                  outcome, "Location sent to " \o py_str(a.to), NoExtra),
        "Failed to send location")

request_location(a, outcome) ==
    try_except(
        send_body("request_location",
                  [to |-> a.to,
                   text |-> a.text,
                   reply_to_message_id |-> a.reply_to_message_id],
                  outcome, "Location request sent to " \o py_str(a.to), NoExtra),
        "Failed to request location")

send_contact(a, outcome) ==
    try_except(
        LET contact == Contact(a.contact_name, a.contact_phone)
        IN  send_body("send_contact",
                      [to |-> a.to,
                       contact |-> contact,
                       reply_to_message_id |-> a.reply_to_message_id],
                      outcome, "Contact sent to " \o py_str(a.to), NoExtra),
        "Failed to send contact")

send_reaction(a, outcome) ==
    try_except(
        status_body("send_reaction",
                  [to |-> a.to,
                   emoji |-> a.emoji,
                   message_id |-> a.message_id,
                   sender |-> a.sender],
                  outcome, "Reaction sent to message " \o py_str(a.message_id)),
        "Failed to send reaction")

remove_reaction(a, outcome) ==
    try_except(
        status_body("remove_reaction",
                  [to |-> a.to,
                   message_id |-> a.message_id,
                   sender |-> a.sender],
                  outcome, "Reaction removed from message " \o py_str(a.message_id)),
        "Failed to remove reaction")

mark_message_as_read(a, outcome) ==
    try_except(
        status_body("mark_message_as_read",
                  [message_id |-> a.message_id,
                   sender |-> a.sender],
                  outcome, "Message " \o py_str(a.message_id) \o " marked as read"),
        "Failed to mark message as read")

\* A mutation of indicate_typing: the handler remembers the message ids it
\* has served and refuses a repetition.
indicate_typing_once(a, outcome) ==
    IF \E i \in 1..Len(returned) :
           /\ returned[i].op = "indicate_typing"
           /\ returned[i].args.message_id = a.message_id
    THEN Return(Failure("Typing already indicated"), <<>>, <<>>)
    ELSE try_except(
             LET call == TransportCall("indicate_typing",
                                       [message_id |-> a.message_id,
                                        sender |-> a.sender], outcome)
             IN  IF outcome.kind = "raise"
                 THEN Raised(outcome.exc, <<call>>, <<>>)
                 ELSE Return(Dict([success |-> Bool(TRUE),
                                   typing_indicated |-> Bool(TRUE),
                                   message_id |-> a.message_id]),
                             <<call>>, <<>>),
             "Failed to indicate typing")

indicate_typing(a, outcome) ==
    try_except(
        LET call == TransportCall("indicate_typing",
                                  [message_id |-> a.message_id,
                                   sender |-> a.sender], outcome)
            \* getattr(result, 'success', bool(result))
            success_status ==
                py_getattr(outcome.value, "success", Bool(py_bool(outcome.value)))
        IN  IF outcome.kind = "raise"
            THEN Raised(outcome.exc, <<call>>, <<>>)
            ELSE Return(Dict([success |-> Bool(TRUE),
                              typing_indicated |-> success_status,
                              message_id |-> a.message_id]),
                        <<call>>,
                        <<Info("Typing indicator shown for message "
                               \o py_str(a.message_id))>>),
        "Failed to indicate typing")

upload_media(a, outcome) ==
    try_except(
        LET call == TransportCall("upload_media",
                                  [media |-> a.media_path,
                                   mime_type |-> a.mime_type], outcome)
        IN  IF outcome.kind = "raise"
            THEN Raised(outcome.exc, <<call>>, <<>>)
            ELSE Return(Dict([success |-> Bool(TRUE),
                              media_id |-> Str(py_str(outcome.value)),
                              media_type |-> Str(TypeName(outcome.value))]),
                        <<call>>, <<Info("Media uploaded successfully")>>),
        "Failed to upload media")

-----------------------------------------------------------------------------
(* tools/templates.py *)

send_template(a, outcome) ==
    try_except(
        send_body("send_template",
                  [to |-> a.to,
                   name |-> a.name,
                   language |-> a.language,
                   \* params or []
                   params |-> IF py_bool(a.params) THEN a.params ELSE List(<<>>),
                   reply_to_message_id |-> a.reply_to_message_id],
                  outcome,
                  "Template '" \o py_str(a.name) \o "' sent to " \o py_str(a.to),
                  [template |-> a.name, to |-> a.to]),
        "Failed to send template")

\* A mutation of the projection: an absent status is reported as null.
template_data_null_default(template) ==
    Dict([id |-> py_getattr(template, "id", Str("")),
          name |-> py_getattr(template, "name", Str("")),
          language |-> py_getattr(template, "language", Str("")),
          status |-> py_getattr(template, "status", None),
          category |-> py_getattr(template, "category", Str(""))])

\* The projection of one template to the five reported fields.
template_data(template) ==
    Dict([id |-> py_getattr(template, "id", Str("")),
          name |-> py_getattr(template, "name", Str("")),
          language |-> py_getattr(template, "language", Str("")),
          status |-> py_getattr(template, "status", Str("")),
          category |-> py_getattr(template, "category", Str(""))])

get_templates(a, outcome) ==
    try_except(
        LET call == TransportCall("get_templates",
                                  [limit |-> a.limit, name |-> a.name], outcome)
            templates == py_iter(outcome.value)
            template_list ==
                [i \in 1..Len(templates.v) |-> template_data(templates.v[i])]
        IN  IF outcome.kind = "raise"
            THEN Raised(outcome.exc, <<call>>, <<>>)
            ELSE IF ~templates.ok
            THEN Raised(templates.exc, <<call>>, <<>>)
            ELSE Return(Dict([success |-> Bool(TRUE),
                              templates |-> List(template_list),
                              count |-> PyInt(Len(template_list))]),
                        <<call>>,
                        <<Info("Retrieved " \o ToString(Len(template_list))
                               \o " templates")>>),
        "Failed to get templates")

-----------------------------------------------------------------------------
(* tools/interactive.py *)

MaxButtons == 3
MaxHeaderLen == 60
MaxFooterLen == 60
MaxButtonTitleLen == 20
MaxButtonIdLen == 256
MaxSections == 10
MaxButtonTextLen == 20
MaxTotalRows == 10
MaxSectionTitleLen == 24
MaxRowIdLen == 200
MaxRowTitleLen == 24
MaxRowDescriptionLen == 72

\* The loop fell through to the statement after it, with its accumulator.
Done(acc) == [kind |-> "done", acc |-> acc]

\* A mutation of the count check: it admits one button more.
too_many_buttons_off_by_one(n) == n > MaxButtons + 1

\* len(buttons) > 3
too_many_buttons(n) == n > MaxButtons

\* A mutation of the button conversion: title and id change places.
make_button_swapped(title, id) == Button(id, title)

\* Button(title=btn["title"], callback_data=btn["id"])
make_button(title, id) == Button(title, id)

\* A mutation of the loop: the id length is checked before the title length.
RECURSIVE buttons_loop_id_first(_, _)
buttons_loop_id_first(items, button_objects) ==
    IF items = <<>> THEN Done(button_objects)
    ELSE
    LET btn == Head(items)
        has_id == py_in("id", btn)
        has_title == py_in("title", btn)
        title == py_getitem(btn, "title")
        title_len == py_len(title.v)
        id == py_getitem(btn, "id")
        id_len == py_len(id.v)
    IN  IF ~has_id.ok THEN Raised(has_id.exc, <<>>, <<>>)
        ELSE IF ~has_id.v \/ ~has_title.v
        THEN Return(Failure("Each button must have 'id' and 'title' keys"),
                    <<>>, <<>>)
        ELSE IF ~id.ok THEN Raised(id.exc, <<>>, <<>>)
        ELSE IF ~id_len.ok THEN Raised(id_len.exc, <<>>, <<>>)
        ELSE IF id_len.v > MaxButtonIdLen
        THEN Return(Failure("Button ID '" \o py_str(id.v)
                            \o "' exceeds 256 characters"), <<>>, <<>>)
        ELSE IF ~title.ok THEN Raised(title.exc, <<>>, <<>>)
        ELSE IF ~title_len.ok THEN Raised(title_len.exc, <<>>, <<>>)
        ELSE IF title_len.v > MaxButtonTitleLen
        THEN Return(Failure("Button title '" \o py_str(title.v)
                            \o "' exceeds 20 characters"), <<>>, <<>>)
        ELSE buttons_loop_id_first(Tail(items),
                 Append(button_objects, make_button(title.v, id.v)))

\* for btn in buttons: the checks of one button, then the rest of the list.
RECURSIVE buttons_loop(_, _)
buttons_loop(items, button_objects) ==
    IF items = <<>> THEN Done(button_objects)
    ELSE
    LET btn == Head(items)
        has_id == py_in("id", btn)
        has_title == py_in("title", btn)
        title == py_getitem(btn, "title")
        title_len == py_len(title.v)
        id == py_getitem(btn, "id")
        id_len == py_len(id.v)
    IN  IF ~has_id.ok THEN Raised(has_id.exc, <<>>, <<>>)
        ELSE IF ~has_id.v \/ ~has_title.v
        THEN Return(Failure("Each button must have 'id' and 'title' keys"),
                    <<>>, <<>>)
        ELSE IF ~title.ok THEN Raised(title.exc, <<>>, <<>>)
        ELSE IF ~title_len.ok THEN Raised(title_len.exc, <<>>, <<>>)
        ELSE IF title_len.v > MaxButtonTitleLen
        THEN Return(Failure("Button title '" \o py_str(title.v)
                            \o "' exceeds 20 characters"), <<>>, <<>>)
        ELSE IF ~id.ok THEN Raised(id.exc, <<>>, <<>>)
        ELSE IF ~id_len.ok THEN Raised(id_len.exc, <<>>, <<>>)
        ELSE IF id_len.v > MaxButtonIdLen
        THEN Return(Failure("Button ID '" \o py_str(id.v)
                            \o "' exceeds 256 characters"), <<>>, <<>>)
        ELSE buttons_loop(Tail(items),
                          Append(button_objects, make_button(title.v, id.v)))

\* `if header and len(header) > 60`, and the same for the footer: the length
\* test of an optional text, which is skipped when the text is falsy.
text_too_long(text, limit) ==
    IF ~py_bool(text) THEN Val(FALSE)
    ELSE LET n == py_len(text)
         IN  IF n.ok THEN Val(n.v > limit) ELSE n

send_message_with_buttons(a, outcome) ==
    try_except(
        LET n_buttons == py_len(a.buttons)
            header_long == text_too_long(a.header, MaxHeaderLen)
            footer_long == text_too_long(a.footer, MaxFooterLen)
            items == py_iter(a.buttons)
            loop == buttons_loop(items.v, <<>>)
            call == TransportCall("send_message",
                                  [to |-> a.to,
                                   text |-> a.text,
                                   buttons |-> List(loop.acc),
                                   header |-> a.header,
                                   footer |-> a.footer,
                                   reply_to_message_id |-> a.reply_to_message_id],
                                  outcome)
        IN  IF ~n_buttons.ok THEN Raised(n_buttons.exc, <<>>, <<>>)
            ELSE IF too_many_buttons(n_buttons.v)
            THEN Return(Failure("Maximum 3 buttons allowed"), <<>>, <<>>)
            ELSE IF ~header_long.ok THEN Raised(header_long.exc, <<>>, <<>>)
            ELSE IF header_long.v
            THEN Return(Failure("Header text must be max 60 characters"),
                        <<>>, <<>>)
            ELSE IF ~footer_long.ok THEN Raised(footer_long.exc, <<>>, <<>>)
            ELSE IF footer_long.v
            THEN Return(Failure("Footer text must be max 60 characters"),
                        <<>>, <<>>)
            ELSE IF ~items.ok THEN Raised(items.exc, <<>>, <<>>)
            ELSE IF loop.kind # "done" THEN loop
            ELSE IF outcome.kind = "raise"
            THEN Raised(outcome.exc, <<call>>, <<>>)
            ELSE Return(Dict([success |-> Bool(TRUE),
                              message_id |-> extract_message_id(outcome.value)]),
                        <<call>>,
                        <<Info("Message with buttons sent to " \o py_str(a.to))>>),
        "Failed to send message with buttons")

\* A mutation of the row count: the rows are read with section["rows"], so a
\* section without the key raises instead of counting as no rows.
RECURSIVE total_row_count_subscript(_)
total_row_count_subscript(items) ==
    IF items = <<>> THEN Val(0)
    ELSE LET rows == py_getitem(Head(items), "rows")
             n == py_len(rows.v)
             rest == total_row_count_subscript(Tail(items))
         IN  IF ~rows.ok THEN rows
             ELSE IF ~n.ok THEN n
             ELSE IF ~rest.ok THEN rest
             ELSE Val(n.v + rest.v)

\* sum(len(section.get("rows", [])) for section in sections)
RECURSIVE total_row_count(_)
total_row_count(items) ==
    IF items = <<>> THEN Val(0)
    ELSE LET rows == py_get(Head(items), "rows", List(<<>>))
             n == py_len(rows.v)
             rest == total_row_count(Tail(items))
         IN  IF ~rows.ok THEN rows
             ELSE IF ~n.ok THEN n
             ELSE IF ~rest.ok THEN rest
             ELSE Val(n.v + rest.v)

\* A mutation of the normalisation: an empty description is passed on as it
\* is.
normal_description_unchanged(description) == description

\* description if description else None
normal_description(description) ==
    IF py_bool(description) THEN description ELSE None

\* for row_data in section_data["rows"]: the checks of one row, then the rest.
RECURSIVE rows_loop(_, _)
rows_loop(items, rows) ==
    IF items = <<>> THEN Done(rows)
    ELSE
    LET row_data == Head(items)
        has_id == py_in("id", row_data)
        has_title == py_in("title", row_data)
        id == py_getitem(row_data, "id")
        id_len == py_len(id.v)
        title == py_getitem(row_data, "title")
        title_len == py_len(title.v)
        description == py_get(row_data, "description", Str(""))
        description_len == py_len(description.v)
    IN  IF ~has_id.ok THEN Raised(has_id.exc, <<>>, <<>>)
        ELSE IF ~has_id.v \/ ~has_title.v
        THEN Return(Failure("Each row must have 'id' and 'title' keys"),
                    <<>>, <<>>)
        ELSE IF ~id.ok THEN Raised(id.exc, <<>>, <<>>)
        ELSE IF ~id_len.ok THEN Raised(id_len.exc, <<>>, <<>>)
        ELSE IF id_len.v > MaxRowIdLen
        THEN Return(Failure("Row ID '" \o py_str(id.v)
                            \o "' exceeds 200 characters"), <<>>, <<>>)
        ELSE IF ~title.ok THEN Raised(title.exc, <<>>, <<>>)
        ELSE IF ~title_len.ok THEN Raised(title_len.exc, <<>>, <<>>)
        ELSE IF title_len.v > MaxRowTitleLen
        THEN Return(Failure("Row title '" \o py_str(title.v)
                            \o "' exceeds 24 characters"), <<>>, <<>>)
        ELSE IF ~description.ok THEN Raised(description.exc, <<>>, <<>>)
        ELSE IF ~description_len.ok THEN Raised(description_len.exc, <<>>, <<>>)
        ELSE IF description_len.v > MaxRowDescriptionLen
        THEN Return(Failure("Row description '" \o py_str(description.v)
                            \o "' exceeds 72 characters"), <<>>, <<>>)
        ELSE rows_loop(Tail(items),
                       Append(rows, SectionRow(title.v, id.v,
                                               normal_description(description.v))))

\* A mutation of the section filter: a section is kept whether or not it has
\* rows.
keep_section_always(rows) == TRUE

\* `if rows:` the section is added only if it has rows.
keep_section(rows) == rows # <<>>

\* A mutation of the section filter: a section without rows is an error.
RECURSIVE sections_loop_demands_rows(_, _)
sections_loop_demands_rows(items, section_objects) ==
    IF items = <<>> THEN Done(section_objects)
    ELSE
    LET section_data == Head(items)
        has_rows == py_in("rows", section_data)
        section_title == py_get(section_data, "title", Str(""))
        title_len == py_len(section_title.v)
        raw_rows == py_getitem(section_data, "rows")
        row_items == py_iter(raw_rows.v)
        loop == rows_loop(row_items.v, <<>>)
    IN  IF ~has_rows.ok THEN Raised(has_rows.exc, <<>>, <<>>)
        ELSE IF ~has_rows.v
        THEN Return(Failure("Each section must have a 'rows' array"), <<>>, <<>>)
        ELSE IF ~section_title.ok THEN Raised(section_title.exc, <<>>, <<>>)
        ELSE IF ~title_len.ok THEN Raised(title_len.exc, <<>>, <<>>)
        ELSE IF title_len.v > MaxSectionTitleLen
        THEN Return(Failure("Section title '" \o py_str(section_title.v)
                            \o "' exceeds 24 characters"), <<>>, <<>>)
        ELSE IF ~raw_rows.ok THEN Raised(raw_rows.exc, <<>>, <<>>)
        ELSE IF ~row_items.ok THEN Raised(row_items.exc, <<>>, <<>>)
        ELSE IF loop.kind # "done" THEN loop
        ELSE IF ~keep_section(loop.acc)
        THEN Return(Failure("Each section must have at least one row"),
                    <<>>, <<>>)
        ELSE sections_loop_demands_rows(
                 Tail(items),
                 Append(section_objects, Section(section_title.v, loop.acc)))

\* for section_data in sections: the checks of one section, then the rest.
RECURSIVE sections_loop(_, _)
sections_loop(items, section_objects) ==
    IF items = <<>> THEN Done(section_objects)
    ELSE
    LET section_data == Head(items)
        has_rows == py_in("rows", section_data)
        section_title == py_get(section_data, "title", Str(""))
        title_len == py_len(section_title.v)
        raw_rows == py_getitem(section_data, "rows")
        row_items == py_iter(raw_rows.v)
        loop == rows_loop(row_items.v, <<>>)
    IN  IF ~has_rows.ok THEN Raised(has_rows.exc, <<>>, <<>>)
        ELSE IF ~has_rows.v
        THEN Return(Failure("Each section must have a 'rows' array"), <<>>, <<>>)
        ELSE IF ~section_title.ok THEN Raised(section_title.exc, <<>>, <<>>)
        ELSE IF ~title_len.ok THEN Raised(title_len.exc, <<>>, <<>>)
        ELSE IF title_len.v > MaxSectionTitleLen
        THEN Return(Failure("Section title '" \o py_str(section_title.v)
                            \o "' exceeds 24 characters"), <<>>, <<>>)
        ELSE IF ~raw_rows.ok THEN Raised(raw_rows.exc, <<>>, <<>>)
        ELSE IF ~row_items.ok THEN Raised(row_items.exc, <<>>, <<>>)
        ELSE IF loop.kind # "done" THEN loop
        ELSE sections_loop(Tail(items),
                           IF keep_section(loop.acc)
                           THEN Append(section_objects,
                                       Section(section_title.v, loop.acc))
                           ELSE section_objects)

\* A mutation of the row cap: the rows are counted per section, not in total.
too_many_rows_per_section(sections) ==
    IF \E i \in 1..Len(sections) :
           LET one == total_row_count(<<sections[i]>>)
           IN  one.ok /\ one.v > MaxTotalRows
    THEN Val(TRUE)
    ELSE LET all == total_row_count(sections)
         IN  IF all.ok THEN Val(FALSE) ELSE all

\* total_row_count > 10
too_many_rows(sections) ==
    LET n == total_row_count(sections)
    IN  IF n.ok THEN Val(n.v > MaxTotalRows) ELSE n

send_message_with_list(a, outcome) ==
    try_except(
        LET n_sections == py_len(a.sections)
            button_text_len == py_len(a.button_text)
            header_long == text_too_long(a.header, MaxHeaderLen)
            footer_long == text_too_long(a.footer, MaxFooterLen)
            items == py_iter(a.sections)
            rows_over == too_many_rows(items.v)
            loop == sections_loop(items.v, <<>>)
            section_list == SectionList(a.button_text, loop.acc)
            call == TransportCall("send_message",
                                  [to |-> a.to,
                                   text |-> a.text,
                                   buttons |-> section_list,
                                   header |-> a.header,
                                   footer |-> a.footer,
                                   reply_to_message_id |-> a.reply_to_message_id],
                                  outcome)
        IN  IF ~n_sections.ok THEN Raised(n_sections.exc, <<>>, <<>>)
            ELSE IF n_sections.v > MaxSections
            THEN Return(Failure("Maximum 10 sections allowed"), <<>>, <<>>)
            ELSE IF ~button_text_len.ok
            THEN Raised(button_text_len.exc, <<>>, <<>>)
            ELSE IF button_text_len.v > MaxButtonTextLen
            THEN Return(Failure("Button text must be max 20 characters"),
                        <<>>, <<>>)
            ELSE IF ~header_long.ok THEN Raised(header_long.exc, <<>>, <<>>)
            ELSE IF header_long.v
            THEN Return(Failure("Header text must be max 60 characters"),
                        <<>>, <<>>)
            ELSE IF ~footer_long.ok THEN Raised(footer_long.exc, <<>>, <<>>)
            ELSE IF footer_long.v
            THEN Return(Failure("Footer text must be max 60 characters"),
                        <<>>, <<>>)
            ELSE IF ~items.ok THEN Raised(items.exc, <<>>, <<>>)
            ELSE IF ~rows_over.ok THEN Raised(rows_over.exc, <<>>, <<>>)
            ELSE IF rows_over.v
            THEN Return(Failure("Maximum 10 rows total across all sections"),
                        <<>>, <<>>)
            ELSE IF loop.kind # "done" THEN loop
            ELSE IF outcome.kind = "raise"
            THEN Raised(outcome.exc, <<call>>, <<>>)
            ELSE Return(Dict([success |-> Bool(TRUE),
                              message_id |-> extract_message_id(outcome.value)]),
                        <<call>>,
                        <<Info("Message with list sent to " \o py_str(a.to))>>),
        "Failed to send message with list")

-----------------------------------------------------------------------------
(* server.py and tools/__init__.py: module initialisation *)

\* WhatsApp(phone_id=phone_id, token=token)
WhatsApp(phone_id, token) ==
    DataObj("WhatsApp", [phone_id |-> phone_id, token |-> token])

\* A mutation of the credential test: both must be missing for it to fire.
missing_credentials_both(phone_id, token) ==
    ~py_bool(phone_id) /\ ~py_bool(token)

\* not phone_id or not token
missing_credentials(phone_id, token) ==
    ~py_bool(phone_id) \/ ~py_bool(token)

\* A mutation of the lazy construction: the handle is not looked at, so every
\* call with credentials constructs a client.
get_whatsapp_client_always_new(handle, env) ==
    LET phone_id == env["WHATSAPP_PHONE_ID"]
        token == env["WHATSAPP_TOKEN"]
    IN  IF missing_credentials(phone_id, token)
        THEN [kind |-> "raise",
              exc |-> Exc("ValueError",
                          "Missing required environment variables: "
                          \o "WHATSAPP_PHONE_ID and WHATSAPP_TOKEN"),
              wa_client |-> handle, log |-> <<>>]
        ELSE [kind |-> "return", value |-> WhatsApp(phone_id, token),
              wa_client |-> WhatsApp(phone_id, token),
              log |-> <<Info("WhatsApp client initialized")>>]

\* get_whatsapp_client(), from the handle and the environment it finds: what
\* it returns or raises, the handle it leaves and the lines it logs.
get_whatsapp_client(handle, env) ==
    LET phone_id == env["WHATSAPP_PHONE_ID"]
        token == env["WHATSAPP_TOKEN"]
    IN  IF handle # None
        THEN [kind |-> "return", value |-> handle, wa_client |-> handle,
              log |-> <<>>]
        ELSE IF missing_credentials(phone_id, token)
        THEN [kind |-> "raise",
              exc |-> Exc("ValueError",
                          "Missing required environment variables: "
                          \o "WHATSAPP_PHONE_ID and WHATSAPP_TOKEN"),
              wa_client |-> handle, log |-> <<>>]
        ELSE [kind |-> "return", value |-> WhatsApp(phone_id, token),
              wa_client |-> WhatsApp(phone_id, token),
              log |-> <<Info("WhatsApp client initialized")>>]

\* The names register_messaging_tools decorates with mcp.tool(), in order.
MessagingTools ==
    <<"send_message", "send_image", "send_video", "send_document",
      "send_audio", "send_sticker", "send_location", "request_location",
      "send_contact", "send_reaction", "remove_reaction",
      "mark_message_as_read", "indicate_typing", "upload_media">>

\* The names register_interactive_tools decorates.
InteractiveTools == <<"send_message_with_buttons", "send_message_with_list">>

\* The names register_template_tools decorates.
TemplateTools == <<"send_template", "get_templates">>

\* register_all_tools(mcp, wa_client): the three registrations in turn.
register_all_tools(tools) ==
    tools \o MessagingTools \o InteractiveTools \o TemplateTools

\* The module-level try block of server.py, run once at import.
ModuleInit ==
    /\ pc = "import"
    /\ pc' = "serving"
    /\ LET got == get_whatsapp_client(wa_client, environ)
       IN  /\ wa_client' = got.wa_client
           /\ registry' = IF got.kind = "return"
                          THEN register_all_tools(registry)
                          ELSE registry
           /\ escaped' = IF got.kind = "raise" /\ got.exc.cls # "ValueError"
                         THEN got.exc
                         ELSE None
           /\ log' = log \o got.log \o
                IF got.kind = "return"
                THEN <<Info("WhatsApp client configuration validated"),
                       Info("All tools registered successfully")>>
                ELSE IF got.exc.cls = "ValueError"
                THEN <<Error("Configuration error: " \o got.exc.msg),
                       Error("Please set WHATSAPP_PHONE_ID and WHATSAPP_TOKEN "
                             \o "environment variables")>>
                ELSE <<>>
    /\ UNCHANGED <<environ, request, inflight, returned>>

-----------------------------------------------------------------------------
(* Calls of get_whatsapp_client, and the environment *)

\* A call of get_whatsapp_client() after the module is imported.  What the
\* caller saw is kept with the environment of the moment.
GetClient ==
    /\ pc = "serving"
    /\ LET got == get_whatsapp_client(wa_client, environ)
       IN  /\ wa_client' = got.wa_client
           /\ log' = log \o got.log
           /\ returned' =
                  Append(returned,
                         IF got.kind = "return"
                         THEN [op |-> "get_whatsapp_client", environ |-> environ,
                               kind |-> "return", value |-> got.value]
                         ELSE [op |-> "get_whatsapp_client", environ |-> environ,
                               kind |-> "raise", exc |-> got.exc])
    /\ UNCHANGED <<environ, pc, registry, escaped, request, inflight>>

\* The process environment changes between calls.
SetEnv(Values) ==
    /\ \E e \in Values :
          /\ e # environ
          /\ environ' = e
    /\ UNCHANGED <<pc, wa_client, registry, escaped, log, request, inflight,
                   returned>>

-----------------------------------------------------------------------------
(* Dispatch of a tool call *)

\* The handler registered under a name, applied to a call's arguments.
Handler(op, a, outcome) ==
    CASE op = "send_message" -> send_message(a, outcome)
      [] op = "send_image" -> send_image(a, outcome)
      [] op = "send_video" -> send_video(a, outcome)
      [] op = "send_document" -> send_document(a, outcome)
      [] op = "send_audio" -> send_audio(a, outcome)
      [] op = "send_sticker" -> send_sticker(a, outcome)
      [] op = "send_location" -> send_location(a, outcome)
      [] op = "request_location" -> request_location(a, outcome)
      [] op = "send_contact" -> send_contact(a, outcome)
      [] op = "send_reaction" -> send_reaction(a, outcome)
      [] op = "remove_reaction" -> remove_reaction(a, outcome)
      [] op = "mark_message_as_read" -> mark_message_as_read(a, outcome)
      [] op = "indicate_typing" -> indicate_typing(a, outcome)
      [] op = "upload_media" -> upload_media(a, outcome)
      [] op = "send_message_with_buttons" -> send_message_with_buttons(a, outcome)
      [] op = "send_message_with_list" -> send_message_with_list(a, outcome)
      [] op = "send_template" -> send_template(a, outcome)
      [] op = "get_templates" -> get_templates(a, outcome)

Registered(op) == \E i \in 1..Len(registry) : registry[i] = op

\* What the host sees of a completed call, with the transport calls it made.
CallRecord(req, c) ==
    IF c.kind = "return"
    THEN [op |-> req.op, args |-> req.args, kind |-> "return",
          value |-> c.value, sent |-> c.sent]
    ELSE [op |-> req.op, args |-> req.args, kind |-> "raise",
          exc |-> c.exc, sent |-> c.sent]

\* The host runs the handler of the pending call.  A handler has no await
\* inside, so it runs to completion in one step; the transport's outcome, if
\* the handler asks for one, is any of Outcomes[op].
Handle(Outcomes) ==
    /\ pc = "serving"
    /\ request # None
    /\ Registered(request.op)
    /\ \E outcome \in Outcomes[request.op] :
          LET c == Handler(request.op, request.args, outcome)
          IN  /\ returned' = Append(returned, CallRecord(request, c))
              /\ log' = log \o c.log
    /\ request' = None
    /\ UNCHANGED <<environ, pc, wa_client, registry, escaped, inflight>>

\* The host issues a call of a registered tool.
Request(Requests) ==
    /\ pc = "serving"
    /\ request = None
    /\ \E r \in Requests :
          /\ Registered(r.op)
          /\ request' = r
    /\ UNCHANGED <<environ, pc, wa_client, registry, escaped, log, inflight,
                   returned>>

-----------------------------------------------------------------------------
(* Calls in flight at once *)

\* A handler is a coroutine that never awaits; the
\* one place where the host could run something else while a call is under
\* way is the blocking wa_client call, so a call in flight is either queued
\* or inside its transport call.

\* The sequence without its i-th element.
Without(seq, i) == SubSeq(seq, 1, i - 1) \o SubSeq(seq, i + 1, Len(seq))

\* What the host sees of a completed call that was in flight with others:
\* the call record, the arrival number and how many other calls were in
\* flight when it completed.
InFlightRecord(call, c) ==
    CallRecord(call, c) @@ [id |-> call.id, others |-> Len(inflight) - 1]

\* A call of a registered tool arrives while others may be in flight.
Arrive(Requests, limit) ==
    /\ pc = "serving"
    /\ Len(returned) + Len(inflight) < limit
    /\ \E r \in Requests :
          /\ Registered(r.op)
          /\ inflight' = Append(inflight,
                                [id |-> Len(returned) + Len(inflight) + 1,
                                 op |-> r.op, args |-> r.args,
                                 stage |-> "queued"])
    /\ UNCHANGED <<environ, pc, wa_client, registry, escaped, log, request,
                   returned>>

\* A queued call runs up to its transport call: it returns at once if it
\* never reaches the call (a validation failure), and is inside the call
\* otherwise.  Whether the call is reached does not depend on its outcome.
Begin(Outcomes) ==
    /\ pc = "serving"
    /\ \E i \in 1..Len(inflight) :
          /\ inflight[i].stage = "queued"
          /\ LET call == inflight[i]
                 c == Handler(call.op, call.args,
                              CHOOSE o \in Outcomes[call.op] : TRUE)
             IN  IF c.sent = <<>>
                 THEN /\ returned' = Append(returned, InFlightRecord(call, c))
                      /\ log' = log \o c.log
                      /\ inflight' = Without(inflight, i)
                 ELSE /\ inflight' = [inflight EXCEPT ![i].stage = "calling"]
                      /\ UNCHANGED <<returned, log>>
    /\ UNCHANGED <<environ, pc, wa_client, registry, escaped, request>>

\* The transport call of a call in flight returns or raises, and the handler
\* runs to its end.
Finish(Outcomes) ==
    /\ pc = "serving"
    /\ \E i \in 1..Len(inflight) :
          /\ inflight[i].stage = "calling"
          /\ \E outcome \in Outcomes[inflight[i].op] :
                LET call == inflight[i]
                    c == Handler(call.op, call.args, outcome)
                IN  /\ returned' = Append(returned, InFlightRecord(call, c))
                    /\ log' = log \o c.log
                    /\ inflight' = Without(inflight, i)
    /\ UNCHANGED <<environ, pc, wa_client, registry, escaped, request>>

-----------------------------------------------------------------------------
(* The values the environment, the host and the transport supply *)

\* os.getenv of a credential: unset, set to the empty string, or set.
EnvValues == {None, Str(""), Str("secret")}

Environments ==
    [{"WHATSAPP_PHONE_ID", "WHATSAPP_TOKEN"} -> EnvValues]

Ops == {MessagingTools[i] : i \in 1..Len(MessagingTools)}
       \cup {InteractiveTools[i] : i \in 1..Len(InteractiveTools)}
       \cup {TemplateTools[i] : i \in 1..Len(TemplateTools)}

\* What a wa_client method may do.
Returns(v) == [kind |-> "return", value |-> v]
Raises(cls, msg) == [kind |-> "raise", exc |-> Exc(cls, msg)]

\* pywa's SentMessage: it exposes the message id.
SentMessage == Obj("SentMessage", [id |-> Str("wamid.A1")], TRUE, "SentMessage(wamid.A1)")
\* A result that exposes an id and is falsy (an empty container type).
EmptyResult == Obj("Result", [id |-> Str("wamid.E0")], FALSE, "Result()")
\* A truthy result without an id attribute.
PlainResult == Obj("SuccessResult", [success |-> Bool(TRUE)], TRUE, "SuccessResult(success=True)")
\* A result reporting that the provider refused.
RefusedResult == Obj("SuccessResult", [success |-> Bool(FALSE)], TRUE, "SuccessResult(success=False)")

Template(name) ==
    Obj("TemplateDetails",
        [id |-> Str("t-" \o name), name |-> Str(name), language |-> Str("en"),
         status |-> Str("APPROVED"), category |-> Str("UTILITY")],
        TRUE, "TemplateDetails(" \o name \o ")")
\* A template object that lacks status and category.
PartialTemplate ==
    Obj("TemplateDetails", [id |-> Str("t-p"), name |-> Str("partial"),
                            language |-> Str("en")], TRUE, "TemplateDetails(partial)")

RaiseOutcomes ==
    {Raises("WhatsAppError", "Invalid parameter"), Raises("TimeoutError", "")}

\* Every outcome modelled of a sending method.
SendOutcomes ==
    {Returns(None), Returns(Str("")), Returns(Str("wamid.S1")),
     Returns(SentMessage), Returns(EmptyResult), Returns(PlainResult)}
    \cup RaiseOutcomes

TemplateOutcomes ==
    {Returns(List(<<>>)), Returns(List(<<Template("hello")>>)),
     Returns(List(<<Template("hello"), PartialTemplate, Template("bye")>>)),
     Returns(None)}
    \cup RaiseOutcomes

TypingOutcomes ==
    {Returns(PlainResult), Returns(RefusedResult), Returns(Bool(TRUE)),
     Returns(None)}
    \cup RaiseOutcomes

AllOutcomes ==
    [op \in Ops |->
        CASE op = "get_templates" -> TemplateOutcomes
          [] op = "indicate_typing" -> TypingOutcomes
          [] OTHER -> SendOutcomes]

\* A smaller choice, for the runs that follow several calls.
FewOutcomes ==
    [op \in Ops |->
        CASE op = "get_templates" ->
               {Returns(List(<<Template("hello")>>)),
                Raises("WhatsAppError", "Invalid parameter")}
          [] op = "indicate_typing" ->
               {Returns(PlainResult), Returns(RefusedResult),
                Raises("WhatsAppError", "Invalid parameter")}
          [] OTHER ->
               {Returns(SentMessage), Raises("WhatsAppError", "Invalid parameter")}]

To == Str("+1234567890")
Req(op, args) == [op |-> op, args |-> args]

\* A text of n characters.
Text(n) == Str(Rep("x", n))

\* One call of each handler that takes no structured payload.
PlainRequests ==
    {Req("send_image", [to |-> To, image |-> Str("https://e.x/i.png"),
                        caption |-> None, footer |-> None,
                        reply_to_message_id |-> None]),
     Req("send_video", [to |-> To, video |-> Str("https://e.x/v.mp4"),
                        caption |-> Str("clip"), footer |-> None,
                        reply_to_message_id |-> None]),
     Req("send_document", [to |-> To, document |-> Str("media-7"),
                           filename |-> Str("a.pdf"), caption |-> None,
                           footer |-> None, reply_to_message_id |-> None]),
     Req("send_audio", [to |-> To, audio |-> Str("media-8"),
                        reply_to_message_id |-> None]),
     Req("send_sticker", [to |-> To, sticker |-> Str("media-9"),
                          reply_to_message_id |-> Str("wamid.In1")]),
     Req("send_location", [to |-> To, latitude |-> PyInt(52),
                           longitude |-> PyInt(4), name |-> None,
                           address |-> None, reply_to_message_id |-> None]),
     Req("request_location", [to |-> To, text |-> Str("Where are you?"),
                              reply_to_message_id |-> None]),
     Req("send_contact", [to |-> To, contact_name |-> Str("Ann"),
                          contact_phone |-> Str("+1987"),
                          reply_to_message_id |-> None]),
     Req("send_reaction", [to |-> To, emoji |-> Str(":)"),
                           message_id |-> Str("wamid.In1"), sender |-> None]),
     Req("remove_reaction", [to |-> To, message_id |-> Str("wamid.In1"),
                             sender |-> None]),
     Req("mark_message_as_read", [message_id |-> Str("wamid.In1"),
                                  sender |-> None]),
     Req("upload_media", [media_path |-> Str("/tmp/a.png"), mime_type |-> None]),
     Req("send_template", [to |-> To, name |-> Str("hello"),
                           language |-> Str("en"), params |-> None,
                           reply_to_message_id |-> None]),
     Req("get_templates", [limit |-> PyInt(100), name |-> None])}

TypingRequests ==
    {Req("indicate_typing", [message_id |-> Str(m), sender |-> None]) :
        m \in {"wamid.In1", "wamid.In2"}}

\* send_message with headers and footers around the 60 character limit.
TextRequests ==
    {Req("send_message", [to |-> To, text |-> Str("hi"), header |-> h,
                          footer |-> f, preview_url |-> Bool(FALSE),
                          reply_to_message_id |-> None]) :
        h \in {None, Text(MaxHeaderLen), Text(MaxHeaderLen + 1)},
        f \in {None, Text(MaxFooterLen), Text(MaxFooterLen + 1)}}

-----------------------------------------------------------------------------
(* Button payloads *)

\* The longest button list the host is let to send.
MaxButtonsIn == 4

ButtonYes == Dict([id |-> Str("o1"), title |-> Str("Yes")])
ButtonNo == Dict([id |-> Str("o2"), title |-> Str("No")])
\* A button at both limits: a 256 character id and a 20 character title.
ButtonAtLimits ==
    Dict([id |-> Str(Rep("i", MaxButtonIdLen)),
          title |-> Str(Rep("t", MaxButtonTitleLen))])
ButtonLongTitle ==
    Dict([id |-> Str("o3"), title |-> Str(Rep("T", MaxButtonTitleLen + 1))])
ButtonLongId ==
    Dict([id |-> Str(Rep("I", MaxButtonIdLen + 1)), title |-> Str("Later")])
ButtonNoTitle == Dict([id |-> Str("o4")])
\* Buttons that break two rules at once.
ButtonLongBoth ==
    Dict([id |-> Str(Rep("J", MaxButtonIdLen + 1)),
          title |-> Str(Rep("U", MaxButtonTitleLen + 1))])
ButtonNoTitleLongId == Dict([id |-> Str(Rep("K", MaxButtonIdLen + 1))])
\* Malformed buttons: a title that is no string, a button that is no mapping.
ButtonIntTitle == Dict([id |-> Str("o5"), title |-> PyInt(7)])
ButtonListTitle == Dict([id |-> Str("o6"), title |-> List(<<Str("a"), Str("b")>>)])
NotAMapping == PyInt(5)

ValidButtons == {ButtonYes, ButtonNo, ButtonAtLimits}
ButtonKinds == ValidButtons \cup {ButtonLongTitle, ButtonLongId, ButtonNoTitle}

\* Every sequence of at most n elements of S.
SeqsUpTo(S, n) == UNION {[1..k -> S] : k \in 0..n}

ButtonLists ==
    SeqsUpTo(ButtonKinds, MaxButtonsIn)
    \cup {<<ButtonYes, ButtonIntTitle>>, <<ButtonListTitle, ButtonNo>>,
          <<NotAMapping>>, <<ButtonYes, NotAMapping, ButtonLongTitle>>,
          <<ButtonLongBoth>>, <<ButtonLongBoth, ButtonNoTitle>>,
          <<ButtonNo, ButtonNoTitleLongId, ButtonLongTitle>>,
          <<ButtonIntTitle, NotAMapping, ButtonNo, ButtonYes>>}

\* Header and footer: absent, empty, at the limit, one over the limit, both
\* over the limit.
HeaderFooters ==
    {<<None, None>>, <<Str(""), Str("")>>,
     <<Text(MaxHeaderLen), Text(MaxFooterLen)>>,
     <<Text(MaxHeaderLen + 1), None>>,
     <<None, Text(MaxFooterLen + 1)>>,
     <<Text(MaxHeaderLen + 1), Text(MaxFooterLen + 1)>>}

ButtonRequest(buttons, hf) ==
    Req("send_message_with_buttons",
        [to |-> To, text |-> Str("Choose"), buttons |-> List(buttons),
         header |-> hf[1], footer |-> hf[2], reply_to_message_id |-> None])

ButtonRequests ==
    {ButtonRequest(b, hf) : b \in ButtonLists, hf \in HeaderFooters}

-----------------------------------------------------------------------------
(* List payloads *)

\* The most sections, and the most rows in one section, the host is let to
\* send; sections at even positions get at most MaxEvenRowsIn rows.
MaxSectionsIn == 11
MaxRowsIn == 11
MaxEvenRowsIn == 1

\* Row j of section i; every second row carries a description.
Row(i, j) ==
    LET id == Str("r" \o ToString(i) \o "_" \o ToString(j))
        title == Str("Row " \o ToString(i) \o "." \o ToString(j))
    IN  IF j % 2 = 0
        THEN Dict([id |-> id, title |-> title,
                   description |-> Str("about " \o ToString(j))])
        ELSE Dict([id |-> id, title |-> title])

SectionOf(i, k) ==
    Dict([title |-> Str("S" \o ToString(i)),
          rows |-> List([j \in 1..k |-> Row(i, j)])])

\* n sections: a rows in those at odd positions, b rows in those at even ones.
SectionsOf(n, a, b) ==
    [i \in 1..n |-> SectionOf(i, IF i % 2 = 1 THEN a ELSE b)]

GoodRow == Dict([id |-> Str("g1"), title |-> Str("Good")])
RowAtLimits ==
    Dict([id |-> Str(Rep("i", MaxRowIdLen)),
          title |-> Str(Rep("t", MaxRowTitleLen)),
          description |-> Str(Rep("d", MaxRowDescriptionLen))])
OddRows ==
    {Dict([id |-> Str(Rep("I", MaxRowIdLen + 1)), title |-> Str("Long id")]),
     Dict([id |-> Str("b2"), title |-> Str(Rep("T", MaxRowTitleLen + 1))]),
     Dict([id |-> Str("b3"), title |-> Str("Long description"),
           description |-> Str(Rep("D", MaxRowDescriptionLen + 1))]),
     Dict([id |-> Str("b4")]),
     Dict([id |-> Str("b5"), title |-> Str("Empty description"),
           description |-> Str("")]),
     Dict([id |-> Str("b6"), title |-> Str("Null description"),
           description |-> None]),
     Dict([id |-> Str("b7"), title |-> PyInt(3)]),
     NotAMapping,
     Str("id and title"),
     RowAtLimits}

\* Sections that differ from SectionOf: no rows key, titles around the limit,
\* no title, rows that are no list, a section that is no mapping, and one
\* section around each odd row.
OddSections ==
    {Dict([title |-> Str("Bare")]),
     Dict([title |-> Str(Rep("S", MaxSectionTitleLen + 1)),
           rows |-> List(<<GoodRow>>)]),
     Dict([title |-> Str(Rep("s", MaxSectionTitleLen)),
           rows |-> List(<<GoodRow>>)]),
     Dict([rows |-> List(<<GoodRow>>)]),
     Dict([title |-> Str("Null rows"), rows |-> None]),
     Dict([title |-> PyInt(9), rows |-> List(<<GoodRow>>)]),
     Str("oops")}
    \cup {Dict([title |-> Str("Odd"), rows |-> List(<<GoodRow, r>>)]) :
             r \in OddRows}

\* The plain section lists, and those with an odd section in the first or the
\* last place.
PlainSectionLists ==
    {SectionsOf(n, a, b) :
        n \in 0..MaxSectionsIn, a \in 0..MaxRowsIn, b \in 0..MaxEvenRowsIn}

OddSectionLists ==
    UNION {{[SectionsOf(n, a, b) EXCEPT ![p] = o] :
               a \in 0..MaxRowsIn, b \in 0..MaxEvenRowsIn, p \in {1, n},
               o \in OddSections} :
           n \in 1..MaxSectionsIn}

\* Rows and sections that break several rules at once.
RowAllLong ==
    Dict([id |-> Str(Rep("J", MaxRowIdLen + 1)),
          title |-> Str(Rep("U", MaxRowTitleLen + 1)),
          description |-> Str(Rep("E", MaxRowDescriptionLen + 1))])
RowLongTitleAndDescription ==
    Dict([id |-> Str("m2"), title |-> Str(Rep("V", MaxRowTitleLen + 1)),
          description |-> Str(Rep("F", MaxRowDescriptionLen + 1))])
RowNoTitleLongId == Dict([id |-> Str(Rep("K", MaxRowIdLen + 1))])
RowLongDescription ==
    Dict([id |-> Str("m4"), title |-> Str("Long description"),
          description |-> Str(Rep("G", MaxRowDescriptionLen + 1))])
RowEmptyDescription ==
    Dict([id |-> Str("m5"), title |-> Str("Empty description"),
          description |-> Str("")])
SectionBare == Dict([title |-> Str("Bare")])
SectionLongTitleBare == Dict([title |-> Str(Rep("W", MaxSectionTitleLen + 1))])
\* A section without rows whose title is too long.
SectionLongTitleEmpty ==
    Dict([title |-> Str(Rep("Y", MaxSectionTitleLen + 1)), rows |-> List(<<>>)])

\* Section lists that break several rules below the total row check, and one
\* whose rows sit on the limits.
MultiSectionLists ==
    {<<SectionLongTitleBare>>,
     <<Dict([title |-> Str(Rep("X", MaxSectionTitleLen + 1)),
             rows |-> List(<<RowAllLong>>)])>>,
     <<Dict([title |-> Str("Keys"), rows |-> List(<<GoodRow, RowNoTitleLongId>>)]),
       SectionBare>>,
     <<Dict([title |-> Str("All"), rows |-> List(<<RowAllLong>>)])>>,
     <<Dict([rows |-> List(<<RowLongTitleAndDescription, RowAllLong>>)])>>,
     <<SectionOf(1, 1),
       Dict([title |-> Str("Late"), rows |-> List(<<RowLongDescription>>)]),
       SectionBare>>,
     <<SectionOf(1, 2), SectionBare, SectionLongTitleBare>>,
     <<Dict([title |-> Str("Edge"),
             rows |-> List(<<RowAtLimits, RowEmptyDescription, GoodRow>>)])>>,
     <<SectionOf(1, 0), SectionLongTitleEmpty>>}

ListRequest(sections, button_text, hf) ==
    Req("send_message_with_list",
        [to |-> To, text |-> Str("Menu"), button_text |-> button_text,
         sections |-> List(sections), header |-> hf[1], footer |-> hf[2],
         reply_to_message_id |-> None])

ListRequests ==
    {ListRequest(s, bt, hf) :
        s \in PlainSectionLists,
        bt \in {Text(MaxButtonTextLen), Text(MaxButtonTextLen + 1)},
        hf \in HeaderFooters}
    \cup {ListRequest(s, Str("View"), <<None, None>>) :
             s \in OddSectionLists \cup MultiSectionLists}

-----------------------------------------------------------------------------
(* Specifications *)

\* The calls the host may have completed before it stops issuing more.
MaxHistory == 2

\* One call of every tool.
BasicRequests ==
    PlainRequests \cup TypingRequests
    \cup {Req("send_message", [to |-> To, text |-> Str("hi"), header |-> None,
                               footer |-> None, preview_url |-> Bool(FALSE),
                               reply_to_message_id |-> None]),
          ButtonRequest(<<ButtonYes, ButtonNo>>, <<None, None>>),
          ListRequest(SectionsOf(2, 1, 1), Str("View"), <<None, None>>)}

\* Calls of every tool, the structured payloads malformed ones included.
CallRequests ==
    PlainRequests \cup TypingRequests \cup TextRequests
    \cup {ButtonRequest(b, hf) :
             b \in {<<>>, <<ButtonYes, ButtonNo>>,
                    <<ButtonYes, ButtonNo, ButtonAtLimits, ButtonYes>>,
                    <<ButtonLongTitle>>, <<ButtonYes, ButtonIntTitle>>,
                    <<ButtonListTitle, ButtonNo>>, <<NotAMapping>>,
                    <<ButtonNoTitle>>},
             hf \in HeaderFooters}
    \cup {ListRequest(s, Str("View"), hf) :
             s \in {SectionsOf(0, 0, 0), SectionsOf(2, 1, 2), SectionsOf(3, 0, 1),
                    SectionsOf(2, 6, 5)}
                   \cup {<<SectionOf(1, 1), o>> : o \in OddSections},
             hf \in HeaderFooters}

\* The state when server.py is about to be imported.
InitServer ==
    /\ environ \in Environments
    /\ pc = "import"
    /\ wa_client = None
    /\ registry = <<>>
    /\ escaped = None
    /\ log = <<>>
    /\ inflight = <<>>
    /\ returned = <<>>

\* The server over its life: start-up, then calls of any registered tool.
Init ==
    /\ InitServer
    /\ request = None

Next ==
    \/ ModuleInit
    \/ /\ Len(returned) < MaxHistory
       /\ Request(BasicRequests)
    \/ Handle(FewOutcomes)

Spec == Init /\ [][Next]_vars

\* One call of any tool, on any payload of CallRequests.
InitCall ==
    /\ InitServer
    /\ request \in CallRequests

NextCall ==
    \/ ModuleInit
    \/ Handle(AllOutcomes)

SpecCall == InitCall /\ [][NextCall]_vars

\* The environments of the payload runs: the credentials set, or one unset.
PayloadEnvironments ==
    {e \in Environments :
        /\ e["WHATSAPP_PHONE_ID"] = Str("secret")
        /\ e["WHATSAPP_TOKEN"] \in {None, Str("secret")}}

\* One call of send_message_with_buttons, on any payload of ButtonRequests.
InitButtons ==
    /\ InitServer
    /\ environ \in PayloadEnvironments
    /\ request \in ButtonRequests

SpecButtons == InitButtons /\ [][NextCall]_vars

\* One call of send_message_with_list, on any payload of ListRequests.
InitList ==
    /\ InitServer
    /\ environ \in PayloadEnvironments
    /\ request \in ListRequests

SpecList == InitList /\ [][NextCall]_vars

\* The calls of get_whatsapp_client followed after the import.
MaxClientCalls == 3

\* The environments a change of credentials may lead to: both unset, both
\* set, the phone id replaced, the token emptied.
ClientEnvironments ==
    {[WHATSAPP_PHONE_ID |-> None, WHATSAPP_TOKEN |-> None],
     [WHATSAPP_PHONE_ID |-> Str("secret"), WHATSAPP_TOKEN |-> Str("secret")],
     [WHATSAPP_PHONE_ID |-> Str("rotated"), WHATSAPP_TOKEN |-> Str("secret")],
     [WHATSAPP_PHONE_ID |-> Str("secret"), WHATSAPP_TOKEN |-> Str("")]}

\* The import, then calls of get_whatsapp_client while the environment
\* changes.
NextClient ==
    \/ ModuleInit
    \/ /\ Len(returned) < MaxClientCalls
       /\ GetClient
    \/ SetEnv(ClientEnvironments)

SpecClient == Init /\ [][NextClient]_vars

\* The calls that arrive in all in the runs with calls in flight at once.
MaxCalls == 3

\* The calls of those runs: a text message, a button message that validation
\* refuses, a list message that passes validation.
ConcurrentRequests ==
    {Req("send_message", [to |-> To, text |-> Str("hi"), header |-> None,
                          footer |-> None, preview_url |-> Bool(FALSE),
                          reply_to_message_id |-> None]),
     ButtonRequest(<<ButtonYes, ButtonNo, ButtonYes, ButtonNo>>, <<None, None>>),
     ListRequest(SectionsOf(2, 1, 1), Str("View"), <<None, None>>)}

\* The credentials set, or the token unset.
InitConcurrent ==
    /\ InitServer
    /\ environ \in PayloadEnvironments
    /\ request = None

\* The import, then calls that arrive, start and finish in any interleaving.
NextConcurrent ==
    \/ ModuleInit
    \/ Arrive(ConcurrentRequests, MaxCalls)
    \/ Begin(FewOutcomes)
    \/ Finish(FewOutcomes)

SpecConcurrent == InitConcurrent /\ [][NextConcurrent]_vars

-----------------------------------------------------------------------------
(* Properties *)

\* The completed calls, as a set.
Records == {returned[i] : i \in 1..Len(returned)}

\* The keys and the fields of the mapping a call returned.
Keys(r) == DOMAIN r.value.kv
Field(r, k) == r.value.kv[k]

\* The call returned a mapping that reports success.
IsSuccess(r) ==
    /\ r.kind = "return"
    /\ r.value.t = "dict"
    /\ "success" \in Keys(r)
    /\ Field(r, "success") = Bool(TRUE)

\* The call returned a mapping that reports failure with an error string.
IsFailure(r) ==
    /\ r.kind = "return"
    /\ r.value.t = "dict"
    /\ {"success", "error"} \subseteq Keys(r)
    /\ Field(r, "success") = Bool(FALSE)
    /\ Field(r, "error").t = "str"

\* The transport was called and raised / returned.
TransportRaised(r) == r.sent # <<>> /\ r.sent[1].outcome.kind = "raise"
TransportReturned(r) == r.sent # <<>> /\ r.sent[1].outcome.kind = "return"

\* C1: every call returns a mapping with success = true, or one with
\* success = false and an error that is a non-empty string; there is no third
\* shape, whatever the transport returns or raises.
C1_TwoShapes ==
    \A r \in Records :
        \/ IsSuccess(r)
        \/ IsFailure(r) /\ Field(r, "error").s # ""

\* C2: every handler is total.  No call lets an exception escape; a call
\* whose transport call raised returns {success: false, error: str(e)}; and
\* a call that ended without reaching the transport (its payload was
\* rejected, or was malformed and made a check raise) returns
\* {success: false, error: <string>} and nothing else.
C2_HandlersAreTotal ==
    \A r \in Records :
        /\ r.kind = "return"
        /\ TransportRaised(r) =>
               r.value = Dict([success |-> Bool(FALSE),
                               error |-> Str(r.sent[1].outcome.exc.msg)])
        /\ r.sent = <<>> => IsFailure(r) /\ Keys(r) = {"success", "error"}

\* A button list with a title that is no string made len() raise, and the
\* handler returned the TypeError's message as a failure.
C2_Witness ==
    \E r \in Records :
        /\ r.op = "send_message_with_buttons"
        /\ r.args.buttons = List(<<ButtonYes, ButtonIntTitle>>)
        /\ r.kind = "return"
        /\ r.value = Dict([success |-> Bool(FALSE),
                           error |-> Str("object of type 'int' has no len()")])

\* C3: a call of send_message_with_buttons with more than 3 buttons returns
\* {success: false, error: "Maximum 3 buttons allowed"} and calls no
\* transport method, whatever the buttons, the header and the footer hold.
C3_TooManyButtons ==
    \A r \in Records :
        (r.op = "send_message_with_buttons" /\ Len(r.args.buttons.items) > 3) =>
            /\ r.kind = "return"
            /\ r.value = Dict([success |-> Bool(FALSE),
                               error |-> Str("Maximum 3 buttons allowed")])
            /\ r.sent = <<>>

\* Four buttons, one without a title key and one with an over-long id, under
\* an over-long header: rejected for their number.
C3_Witness ==
    \E r \in Records :
        /\ r.op = "send_message_with_buttons"
        /\ r.args.buttons =
               List(<<ButtonNoTitle, ButtonLongId, ButtonYes, ButtonLongTitle>>)
        /\ r.args.header = Text(61)
        /\ r.value = Dict([success |-> Bool(FALSE),
                           error |-> Str("Maximum 3 buttons allowed")])
        /\ r.sent = <<>>

\* A button within the limits: a mapping with a string id of at most 256
\* characters and a string title of at most 20.
ButtonWithinLimits(b) ==
    /\ b.t = "dict"
    /\ {"id", "title"} \subseteq DOMAIN b.kv
    /\ b.kv["id"].t = "str" /\ Len(b.kv["id"].s) <= 256
    /\ b.kv["title"].t = "str" /\ Len(b.kv["title"].s) <= 20

\* An optional text that is absent or has at most 60 characters.
TextWithinLimit(x) == x = None \/ (x.t = "str" /\ Len(x.s) <= 60)

\* C4: at most 3 buttons, each within the limits, header and footer absent
\* or within 60 characters: the transport is called once, with as many
\* normalized buttons in the same order, the i-th carrying the i-th title
\* as title and the i-th id as callback data; and if the transport returns,
\* the call returns {success: true, message_id: <id>}.
C4_ValidButtonsAreSent ==
    \A r \in Records :
        (/\ r.op = "send_message_with_buttons"
         /\ Len(r.args.buttons.items) <= 3
         /\ \A i \in 1..Len(r.args.buttons.items) :
                ButtonWithinLimits(r.args.buttons.items[i])
         /\ TextWithinLimit(r.args.header)
         /\ TextWithinLimit(r.args.footer))
        =>
        /\ Len(r.sent) = 1
        /\ r.sent[1].method = "send_message"
        /\ LET in == r.args.buttons.items
               out == r.sent[1].kwargs.buttons.items
           IN  /\ Len(out) = Len(in)
               /\ \A i \in 1..Len(in) :
                      /\ out[i].cls = "Button"
                      /\ out[i].attrs.title = in[i].kv["title"]
                      /\ out[i].attrs.callback_data = in[i].kv["id"]
        /\ TransportReturned(r) =>
               /\ IsSuccess(r)
               /\ Keys(r) = {"success", "message_id"}

\* Three buttons within the limits, one of them at both limits, under a 60
\* character header: sent in order, and the call succeeded.
C4_Witness ==
    \E r \in Records :
        /\ r.op = "send_message_with_buttons"
        /\ r.args.buttons = List(<<ButtonAtLimits, ButtonNo, ButtonYes>>)
        /\ r.args.header = Text(60)
        /\ Len(r.sent) = 1
        /\ Len(r.sent[1].kwargs.buttons.items) = 3
        /\ r.sent[1].kwargs.buttons.items[2].attrs.callback_data = Str("o2")
        /\ IsSuccess(r)
        /\ Field(r, "message_id") = Str("wamid.A1")

\* The rows a section of a payload holds: those of its rows array, none if
\* it has no such array.
RawRows(section) ==
    IF section.t = "dict" /\ "rows" \in DOMAIN section.kv
       /\ section.kv["rows"].t = "list"
    THEN section.kv["rows"].items
    ELSE <<>>

RECURSIVE RawRowTotal(_)
RawRowTotal(sections) ==
    IF sections = <<>> THEN 0
    ELSE Len(RawRows(Head(sections))) + RawRowTotal(Tail(sections))

\* A row, and a section, that no rule of the list validation rejects.
RowWithinLimits(row) ==
    /\ row.t = "dict"
    /\ {"id", "title"} \subseteq DOMAIN row.kv
    /\ DOMAIN row.kv \subseteq {"id", "title", "description"}
    /\ \A k \in DOMAIN row.kv : row.kv[k].t = "str"
    /\ Len(row.kv["id"].s) <= 200
    /\ Len(row.kv["title"].s) <= 24
    /\ "description" \in DOMAIN row.kv => Len(row.kv["description"].s) <= 72

SectionWithinLimits(section) ==
    /\ section.t = "dict"
    /\ DOMAIN section.kv = {"title", "rows"}
    /\ section.kv["title"].t = "str" /\ Len(section.kv["title"].s) <= 24
    /\ section.kv["rows"].t = "list"
    /\ \A j \in 1..Len(section.kv["rows"].items) :
           RowWithinLimits(section.kv["rows"].items[j])

\* C5: a list payload with more than 10 rows in total is answered with a
\* failure envelope and no transport call, also when every section and
\* every row of it is valid.
C5_TooManyRowsInTotal ==
    \A r \in Records :
        (r.op = "send_message_with_list"
         /\ RawRowTotal(r.args.sections.items) > 10) =>
            /\ IsFailure(r)
            /\ r.sent = <<>>

\* Ten valid sections of 2 and 1 rows in turn, 15 rows in all, under valid
\* texts: rejected for the total alone.
C5_Witness ==
    \E r \in Records :
        /\ r.op = "send_message_with_list"
        /\ Len(r.args.sections.items) = 10
        /\ RawRowTotal(r.args.sections.items) = 15
        /\ \A i \in 1..10 : SectionWithinLimits(r.args.sections.items[i])
        /\ r.value = Dict([success |-> Bool(FALSE),
                           error |-> Str("Maximum 10 rows total across all sections")])
        /\ r.sent = <<>>

\* The title a section is sent under: its own, or the empty string.
TitleOf(section) ==
    IF "title" \in DOMAIN section.kv THEN section.kv["title"] ELSE Str("")

\* C6: when a list payload passes validation, the sections handed to the
\* transport are exactly the input sections with at least one row, in input
\* order, each with its rows in input order; sections without rows are
\* left out and raise no error.
C6_EmptySectionsAreDropped ==
    \A r \in Records :
        (r.op = "send_message_with_list" /\ r.sent # <<>>) =>
            LET in == SelectSeq(r.args.sections.items,
                                LAMBDA x : RawRows(x) # <<>>)
                out == r.sent[1].kwargs.buttons.attrs.sections.items
            IN  /\ Len(r.sent) = 1
                /\ r.sent[1].kwargs.buttons.cls = "SectionList"
                /\ Len(out) = Len(in)
                /\ \A i \in 1..Len(in) :
                       /\ out[i].cls = "Section"
                       /\ out[i].attrs.title = TitleOf(in[i])
                       /\ Len(out[i].attrs.rows.items) = Len(RawRows(in[i]))
                       /\ \A j \in 1..Len(RawRows(in[i])) :
                              LET row == out[i].attrs.rows.items[j]
                              IN  /\ row.cls = "SectionRow"
                                  /\ row.attrs.callback_data = RawRows(in[i])[j].kv["id"]
                                  /\ row.attrs.title = RawRows(in[i])[j].kv["title"]

\* A 2-row section followed by an empty one: one section is sent, the call
\* succeeds.
C6_Witness ==
    \E r \in Records :
        /\ r.op = "send_message_with_list"
        /\ Len(r.args.sections.items) = 2
        /\ Len(RawRows(r.args.sections.items[1])) = 2
        /\ RawRows(r.args.sections.items[2]) = <<>>
        /\ "rows" \in DOMAIN r.args.sections.items[2].kv
        /\ Len(r.sent) = 1
        /\ Len(r.sent[1].kwargs.buttons.attrs.sections.items) = 1
        /\ IsSuccess(r)

\* The 18 tools, by the module that registers them.
NamedMessagingTools ==
    {"send_message", "send_image", "send_video", "send_document", "send_audio",
     "send_sticker", "send_location", "request_location", "send_contact",
     "send_reaction", "remove_reaction", "mark_message_as_read",
     "indicate_typing", "upload_media"}
NamedInteractiveTools == {"send_message_with_buttons", "send_message_with_list"}
NamedTemplateTools == {"send_template", "get_templates"}

\* A credential that is unset or empty.
Missing(name) == environ[name] = None \/ environ[name] = Str("")

RegisteredTools == {registry[i] : i \in 1..Len(registry)}

\* C7: nothing is registered before start-up; after it no exception has
\* escaped, and either a credential was missing, the condition was logged as
\* an error and no tool is registered, or both were present and exactly the
\* 18 named tools are registered, each once (14 messaging, 2 interactive,
\* 2 template).  No proper non-empty subset is ever registered.
C7_AllToolsOrNone ==
    /\ pc = "import" => registry = <<>>
    /\ pc = "serving" =>
        /\ escaped = None
        /\ IF Missing("WHATSAPP_PHONE_ID") \/ Missing("WHATSAPP_TOKEN")
           THEN /\ registry = <<>>
                /\ wa_client = None
                /\ \E i \in 1..Len(log) :
                       /\ log[i].level = "ERROR"
                       /\ log[i].msg = "Configuration error: Missing required "
                             \o "environment variables: WHATSAPP_PHONE_ID and "
                             \o "WHATSAPP_TOKEN"
           ELSE /\ Len(registry) = 18
                /\ Cardinality(RegisteredTools) = 18
                /\ Cardinality(RegisteredTools \cap NamedMessagingTools) = 14
                /\ NamedInteractiveTools \subseteq RegisteredTools
                /\ NamedTemplateTools \subseteq RegisteredTools
                /\ wa_client # None

\* Start-up has run with the phone id set and the token empty: the error is
\* logged and nothing is registered.
C7_Witness ==
    /\ pc = "serving"
    /\ environ["WHATSAPP_PHONE_ID"] = Str("secret")
    /\ environ["WHATSAPP_TOKEN"] = Str("")
    /\ registry = <<>>
    /\ \E i \in 1..Len(log) : log[i].level = "ERROR"
    /\ escaped = None

\* The tools whose success envelope reports message_id from the transport's
\* return value.
ReportsMessageId ==
    {"send_message", "send_image", "send_video", "send_document", "send_audio",
     "send_sticker", "send_location", "request_location", "send_contact",
     "send_message_with_buttons", "send_message_with_list", "send_template"}

\* The transport's return value exposes an identifier field.
ExposesId(v) == v.t = "obj" /\ "id" \in DOMAIN v.attrs

\* C8, as claimed: message_id is the identifier field whenever the return
\* value exposes one; otherwise it is null for an absent or falsy return
\* value and the string rendering of the return value for any other.
C8_IdentifierAlwaysWins ==
    \A r \in Records :
        (r.op \in ReportsMessageId /\ TransportReturned(r)) =>
            LET v == r.sent[1].outcome.value
            IN  /\ r.kind = "return"
                /\ "message_id" \in Keys(r)
                /\ Field(r, "message_id") =
                       IF ExposesId(v) THEN v.attrs["id"]
                       ELSE IF ~py_bool(v) THEN None
                       ELSE Str(py_str(v))

\* C8, amended: message_id is null whenever the return value is absent or
\* falsy, also when it exposes an identifier field; for a truthy return
\* value it is the identifier field if the value exposes one and the string
\* rendering of the value otherwise.
C8_FalsyFirst ==
    \A r \in Records :
        (r.op \in ReportsMessageId /\ TransportReturned(r)) =>
            LET v == r.sent[1].outcome.value
            IN  /\ r.kind = "return"
                /\ "message_id" \in Keys(r)
                /\ Field(r, "message_id") =
                       IF ~py_bool(v) THEN None
                       ELSE IF ExposesId(v) THEN v.attrs["id"]
                       ELSE Str(py_str(v))

\* A send whose transport returned a falsy value that exposes an id
\* reported success with message_id null.
C8_Witness ==
    \E r \in Records :
        /\ r.op = "send_image"
        /\ TransportReturned(r)
        /\ r.sent[1].outcome.value = EmptyResult
        /\ IsSuccess(r)
        /\ Field(r, "message_id") = None

\* C9: of two completed indicate_typing calls with the same message id, each
\* whose transport call returned is a success envelope built from its own
\* message id and its own transport result, whatever the other was; and two
\* calls with the same arguments and the same transport outcome return the
\* same envelope.
C9_TypingRepeats ==
    \A i, j \in 1..Len(returned) :
        (/\ i < j
         /\ returned[i].op = "indicate_typing"
         /\ returned[j].op = "indicate_typing"
         /\ returned[i].args.message_id = returned[j].args.message_id)
        =>
        /\ \A k \in {i, j} :
               /\ returned[k].kind = "return"
               /\ TransportReturned(returned[k]) =>
                      /\ IsSuccess(returned[k])
                      /\ Field(returned[k], "message_id")
                             = returned[k].args.message_id
                      /\ Field(returned[k], "typing_indicated")
                             = LET v == returned[k].sent[1].outcome.value
                               IN  IF v.t = "obj" /\ "success" \in DOMAIN v.attrs
                                   THEN v.attrs["success"]
                                   ELSE Bool(py_bool(v))
               /\ TransportRaised(returned[k]) => IsFailure(returned[k])
               /\ Len(returned[k].sent) = 1
        /\ (returned[i].args = returned[j].args
            /\ returned[i].sent = returned[j].sent)
               => returned[i].value = returned[j].value

\* Two indicate_typing calls in succession with the same message id, both
\* answered by the transport: two success envelopes.
C9_Witness ==
    /\ Len(returned) = 2
    /\ returned[1].op = "indicate_typing"
    /\ returned[2].op = "indicate_typing"
    /\ returned[1].args.message_id = Str("wamid.In1")
    /\ returned[2].args.message_id = Str("wamid.In1")
    /\ IsSuccess(returned[1])
    /\ IsSuccess(returned[2])
    /\ Field(returned[2], "typing_indicated") = Bool(TRUE)

\* C10: no transport call of send_message, send_message_with_buttons or
\* send_message_with_list carries a header or a footer of more than 60
\* characters.
C10_HeaderFooterWithinLimit ==
    \A r \in Records :
        r.op \in {"send_message", "send_message_with_buttons",
                  "send_message_with_list"} =>
            \A i \in 1..Len(r.sent) :
                /\ TextWithinLimit(r.sent[i].kwargs.header)
                /\ TextWithinLimit(r.sent[i].kwargs.footer)

\* The five fields get_templates reports of a template.
TemplateFields == {"id", "name", "language", "status", "category"}

\* C11: when the transport's template listing returns a sequence of n
\* templates, get_templates returns {success: true, templates, count} where
\* templates has n entries in the transport's order, count = n, and each
\* entry has exactly the fields id, name, language, status and category, each
\* the template's field of that name when it has one and "" when it has not.
C11_TemplatesAreProjected ==
    \A r \in Records :
        (/\ r.op = "get_templates"
         /\ TransportReturned(r)
         /\ r.sent[1].outcome.value.t = "list")
        =>
        LET listed == r.sent[1].outcome.value.items
        IN  /\ IsSuccess(r)
            /\ Keys(r) = {"success", "templates", "count"}
            /\ Field(r, "count") = PyInt(Len(listed))
            /\ Field(r, "templates").t = "list"
            /\ Len(Field(r, "templates").items) = Len(listed)
            /\ \A i \in 1..Len(listed) :
                   LET entry == Field(r, "templates").items[i]
                   IN  /\ entry.t = "dict"
                       /\ DOMAIN entry.kv = TemplateFields
                       /\ \A f \in TemplateFields :
                              entry.kv[f] =
                                  IF f \in DOMAIN listed[i].attrs
                                  THEN listed[i].attrs[f]
                                  ELSE Str("")

\* The transport listed three templates, the second without status and
\* category: three entries in that order, the second with "" for both.
C11_Witness ==
    \E r \in Records :
        /\ r.op = "get_templates"
        /\ TransportReturned(r)
        /\ r.sent[1].outcome.value =
               List(<<Template("hello"), PartialTemplate, Template("bye")>>)
        /\ IsSuccess(r)
        /\ Field(r, "count") = PyInt(3)
        /\ Field(r, "templates").items[1].kv["name"] = Str("hello")
        /\ Field(r, "templates").items[2].kv["status"] = Str("")
        /\ Field(r, "templates").items[2].kv["category"] = Str("")
        /\ Field(r, "templates").items[3].kv["name"] = Str("bye")

\* A button payload of the declared type: a mapping whose id and title, where
\* it has them, are strings.
IsButtonMapping(b) ==
    /\ b.t = "dict"
    /\ \A k \in DOMAIN b.kv \cap {"id", "title"} : b.kv[k].t = "str"

\* An optional text is present and longer than the limit.
TextOver(x, limit) == x.t = "str" /\ Len(x.s) > limit

\* The error of the first rule one button breaks, "" if it breaks none:
\* missing key, then title length, then id length.
ButtonError(b) ==
    IF ~({"id", "title"} \subseteq DOMAIN b.kv)
    THEN "Each button must have 'id' and 'title' keys"
    ELSE IF Len(b.kv["title"].s) > 20
    THEN "Button title '" \o b.kv["title"].s \o "' exceeds 20 characters"
    ELSE IF Len(b.kv["id"].s) > 256
    THEN "Button ID '" \o b.kv["id"].s \o "' exceeds 256 characters"
    ELSE ""

\* The error of the earliest rule a button payload breaks in the order
\* count, header, footer, buttons in input order; "" if it breaks none.
FirstButtonsError(a) ==
    LET buttons == a.buttons.items
        broken == {i \in 1..Len(buttons) : ButtonError(buttons[i]) # ""}
    IN  IF Len(buttons) > 3 THEN "Maximum 3 buttons allowed"
        ELSE IF TextOver(a.header, 60)
        THEN "Header text must be max 60 characters"
        ELSE IF TextOver(a.footer, 60)
        THEN "Footer text must be max 60 characters"
        ELSE IF broken # {}
        THEN ButtonError(buttons[CHOOSE i \in broken :
                                     \A j \in broken : i <= j])
        ELSE ""

\* C12: the button checks run in the order count, header, footer, then per
\* button in input order missing key, title length, id length; a payload
\* that breaks rules is refused with the error of the earliest rule it breaks
\* and without a transport call, and a payload that breaks none reaches the
\* transport.
C12_ButtonChecksInOrder ==
    \A r \in Records :
        (/\ r.op = "send_message_with_buttons"
         /\ \A i \in 1..Len(r.args.buttons.items) :
                IsButtonMapping(r.args.buttons.items[i]))
        =>
        IF FirstButtonsError(r.args) # ""
        THEN /\ IsFailure(r)
             /\ Field(r, "error") = Str(FirstButtonsError(r.args))
             /\ r.sent = <<>>
        ELSE Len(r.sent) = 1

\* A payload that breaks three rules below the count and text checks (the
\* first button's title and id are both too long, the second lacks its
\* title) is refused with the first button's title error.
C12_Witness ==
    \E r \in Records :
        /\ r.op = "send_message_with_buttons"
        /\ r.args.buttons = List(<<ButtonLongBoth, ButtonNoTitle>>)
        /\ ~TextOver(r.args.header, 60)
        /\ ~TextOver(r.args.footer, 60)
        /\ IsFailure(r)
        /\ Field(r, "error") =
               Str("Button title '" \o Rep("U", 21) \o "' exceeds 20 characters")
        /\ r.sent = <<>>

\* A row payload of the declared type: a mapping whose id, title and
\* description, where it has them, are strings.
IsRowMapping(row) ==
    /\ row.t = "dict"
    /\ \A k \in DOMAIN row.kv \cap {"id", "title", "description"} :
           row.kv[k].t = "str"

\* A section payload of the declared type: a mapping whose title, where it
\* has one, is a string and whose rows, where it has them, are a list of row
\* mappings.
IsSectionMapping(section) ==
    /\ section.t = "dict"
    /\ "title" \in DOMAIN section.kv => section.kv["title"].t = "str"
    /\ "rows" \in DOMAIN section.kv =>
           /\ section.kv["rows"].t = "list"
           /\ \A j \in 1..Len(section.kv["rows"].items) :
                  IsRowMapping(section.kv["rows"].items[j])

\* A list payload of the declared type.
IsListPayload(a) ==
    /\ a.sections.t = "list"
    /\ \A i \in 1..Len(a.sections.items) : IsSectionMapping(a.sections.items[i])
    /\ a.button_text.t = "str"

\* The least element of a non-empty set of positions.
First(S) == CHOOSE i \in S : \A j \in S : i <= j

\* The error of the first rule one row breaks, "" if it breaks none: missing
\* key, then id length, title length, description length.
RowError(row) ==
    IF ~({"id", "title"} \subseteq DOMAIN row.kv)
    THEN "Each row must have 'id' and 'title' keys"
    ELSE IF Len(row.kv["id"].s) > 200
    THEN "Row ID '" \o row.kv["id"].s \o "' exceeds 200 characters"
    ELSE IF Len(row.kv["title"].s) > 24
    THEN "Row title '" \o row.kv["title"].s \o "' exceeds 24 characters"
    ELSE IF "description" \in DOMAIN row.kv
            /\ Len(row.kv["description"].s) > 72
    THEN "Row description '" \o row.kv["description"].s
         \o "' exceeds 72 characters"
    ELSE ""

\* The error of the first rule one section breaks, "" if it breaks none:
\* missing rows key, then title length, then its rows in order.
SectionError(section) ==
    IF "rows" \notin DOMAIN section.kv
    THEN "Each section must have a 'rows' array"
    ELSE IF "title" \in DOMAIN section.kv /\ Len(section.kv["title"].s) > 24
    THEN "Section title '" \o section.kv["title"].s
         \o "' exceeds 24 characters"
    ELSE LET rows == section.kv["rows"].items
             broken == {j \in 1..Len(rows) : RowError(rows[j]) # ""}
         IN  IF broken # {} THEN RowError(rows[First(broken)]) ELSE ""

\* The error of the earliest rule a list payload breaks in the order section
\* count, button text, header, footer, total of the raw rows, sections in
\* input order; "" if it breaks none.
FirstListError(a) ==
    LET sections == a.sections.items
        broken == {i \in 1..Len(sections) : SectionError(sections[i]) # ""}
    IN  IF Len(sections) > 10 THEN "Maximum 10 sections allowed"
        ELSE IF Len(a.button_text.s) > 20
        THEN "Button text must be max 20 characters"
        ELSE IF TextOver(a.header, 60)
        THEN "Header text must be max 60 characters"
        ELSE IF TextOver(a.footer, 60)
        THEN "Footer text must be max 60 characters"
        ELSE IF RawRowTotal(sections) > 10
        THEN "Maximum 10 rows total across all sections"
        ELSE IF broken # {} THEN SectionError(sections[First(broken)])
        ELSE ""

\* C13: the list checks run in the order section count, button text, header,
\* footer, total of the raw rows (a section without a rows key counting as
\* none), then per section in order rows key, title length and per row in
\* order keys, id length, title length, description length; a payload that
\* breaks rules is refused with the error of the earliest rule it breaks and
\* without a transport call.  So more than 10 raw rows give the total-rows
\* error also when a section lacks its rows key or a row is invalid.
C13_ListChecksInOrder ==
    \A r \in Records :
        (r.op = "send_message_with_list" /\ IsListPayload(r.args))
        =>
        IF FirstListError(r.args) # ""
        THEN /\ IsFailure(r)
             /\ Field(r, "error") = Str(FirstListError(r.args))
             /\ r.sent = <<>>
        ELSE Len(r.sent) = 1

\* A payload within the section cap with more than 10 raw rows, a section
\* without its rows key and a section that has rows: refused with the
\* total-rows error.
C13_Witness ==
    \E r \in Records :
        /\ r.op = "send_message_with_list"
        /\ IsListPayload(r.args)
        /\ Len(r.args.sections.items) <= 10
        /\ \E i \in 1..Len(r.args.sections.items) :
               "rows" \notin DOMAIN r.args.sections.items[i].kv
        /\ RawRowTotal(r.args.sections.items) > 10
        /\ IsFailure(r)
        /\ Field(r, "error") = Str("Maximum 10 rows total across all sections")
        /\ r.sent = <<>>

\* The two handlers that validate a payload before they call the transport.
ValidatingTools == {"send_message_with_buttons", "send_message_with_list"}

\* The error validation reports of a call's payload, "" if it passes; only
\* for the payloads of the declared type of the two validating handlers.
ValidationError(r) ==
    IF r.op = "send_message_with_buttons" THEN FirstButtonsError(r.args)
    ELSE FirstListError(r.args)

IsDeclaredPayload(r) ==
    IF r.op = "send_message_with_buttons"
    THEN \A i \in 1..Len(r.args.buttons.items) :
             IsButtonMapping(r.args.buttons.items[i])
    ELSE IsListPayload(r.args)

\* C14: a handler invocation makes at most one transport call: none when
\* send_message_with_buttons or send_message_with_list refuses the payload,
\* exactly one otherwise; when the call raises, the handler returns the
\* failure envelope with the exception's message and has called the
\* transport once.
C14_AtMostOneTransportCall ==
    \A r \in Records :
        /\ Len(r.sent) <= 1
        /\ r.op \notin ValidatingTools => Len(r.sent) = 1
        /\ r.op \in ValidatingTools =>
               /\ r.sent = <<>> => IsFailure(r)
               /\ IsDeclaredPayload(r) =>
                      (r.sent = <<>> <=> ValidationError(r) # "")
        /\ TransportRaised(r) =>
               /\ Len(r.sent) = 1
               /\ IsFailure(r)
               /\ Field(r, "error") = Str(r.sent[1].outcome.exc.msg)

\* A list message that passed validation and whose transport call raised:
\* the failure envelope after one call.
C14_Witness ==
    \E r \in Records :
        /\ r.op = "send_message_with_list"
        /\ IsDeclaredPayload(r)
        /\ ValidationError(r) = ""
        /\ TransportRaised(r)
        /\ Len(r.sent) = 1
        /\ IsFailure(r)
        /\ Field(r, "error") = Str("Invalid parameter")

\* The lines that report a construction of the client.
Constructions ==
    {i \in 1..Len(log) : log[i] = Info("WhatsApp client initialized")}

\* Both credentials are set and non-empty in an environment.
HasCredentials(env) ==
    /\ env["WHATSAPP_PHONE_ID"].t = "str" /\ env["WHATSAPP_PHONE_ID"].s # ""
    /\ env["WHATSAPP_TOKEN"].t = "str" /\ env["WHATSAPP_TOKEN"].s # ""

\* C15: over any sequence of get_whatsapp_client calls the client is
\* constructed at most once; once a call has returned a client, every later
\* call returns that same client whatever credentials the environment then
\* holds; a call that finds no client and a credential missing raises
\* ValueError and leaves the handle unset, and the first call that finds no
\* client and both credentials constructs it from them.
C15_ClientIsSingleton ==
    /\ Cardinality(Constructions) <= 1
    /\ wa_client # None <=> Constructions # {}
    /\ \A i, j \in 1..Len(returned) :
           (i < j /\ returned[i].kind = "return") =>
               /\ returned[j].kind = "return"
               /\ returned[j].value = returned[i].value
    /\ \A j \in 1..Len(returned) :
           /\ returned[j].kind = "return" => returned[j].value = wa_client
           /\ returned[j].kind = "raise" =>
                  /\ returned[j].exc.cls = "ValueError"
                  /\ ~HasCredentials(returned[j].environ)
                  /\ \A i \in 1..j : returned[i].kind = "raise"
           /\ (/\ registry = <<>>
               /\ \A i \in 1..(j - 1) : returned[i].kind = "raise"
               /\ HasCredentials(returned[j].environ))
              => /\ returned[j].kind = "return"
                 /\ returned[j].value =
                        WhatsApp(returned[j].environ["WHATSAPP_PHONE_ID"],
                                 returned[j].environ["WHATSAPP_TOKEN"])

\* The import and a first call failed for a missing credential, a second
\* call constructed the client, and a third call under other credentials
\* returned the same client.
C15_Witness ==
    /\ Len(returned) = 3
    /\ returned[1].kind = "raise"
    /\ returned[2].kind = "return"
    /\ returned[3].kind = "return"
    /\ returned[3].environ # returned[2].environ
    /\ HasCredentials(returned[3].environ)
    /\ returned[3].value = returned[2].value
    /\ Cardinality(Constructions) = 1

\* C16: with several calls in flight at once, in any interleaving of their
\* arrivals, starts and ends, no handler writes the client handle, and what a
\* call returns depends on its own arguments and its own transport outcome
\* only: two calls with the same arguments and the same transport outcome
\* return the same envelope whatever else was in flight or had failed, a call
\* reaches the transport or not by its arguments alone, and a call whose own
\* transport call returned reports success.
C16_CallsAreIndependent ==
    /\ registry # <<>> =>
           wa_client = WhatsApp(environ["WHATSAPP_PHONE_ID"],
                                environ["WHATSAPP_TOKEN"])
    /\ \A i, j \in 1..Len(returned) :
           (returned[i].op = returned[j].op
            /\ returned[i].args = returned[j].args)
           => /\ returned[i].sent = <<>> <=> returned[j].sent = <<>>
              /\ returned[i].sent = returned[j].sent
                     => /\ returned[i].kind = returned[j].kind
                        /\ returned[i].value = returned[j].value
    /\ \A i \in 1..Len(returned) :
           /\ returned[i].kind = "return"
           /\ TransportReturned(returned[i]) => IsSuccess(returned[i])
           /\ TransportRaised(returned[i]) =>
                  /\ IsFailure(returned[i])
                  /\ Field(returned[i], "error")
                         = Str(returned[i].sent[1].outcome.exc.msg)

\* A text message sent with nothing else in flight, and the same message
\* sent again and still in flight when another call failed: the same success
\* envelope both times.
C16_Witness ==
    \E i, k, j \in 1..Len(returned) :
        /\ i < k /\ k < j
        /\ returned[i].op = "send_message"
        /\ returned[j].op = "send_message"
        /\ returned[i].args = returned[j].args
        /\ returned[i].sent = returned[j].sent
        /\ returned[i].others = 0
        /\ returned[k].others > 0
        /\ returned[j].id < returned[k].id
        /\ IsFailure(returned[k])
        /\ IsSuccess(returned[i])
        /\ returned[j].value = returned[i].value

\* The rows of all sections, in order.
RECURSIVE AllRows(_)
AllRows(sections) ==
    IF sections = <<>> THEN <<>>
    ELSE RawRows(Head(sections)) \o AllRows(Tail(sections))

\* The rows of all sections of a SectionList that was sent, in order.
RECURSIVE SentRows(_)
SentRows(sections) ==
    IF sections = <<>> THEN <<>>
    ELSE Head(sections).attrs.rows.items \o SentRows(Tail(sections))

\* A list payload of the declared type that passes every check but those of
\* the row lengths: within the section and row caps, button text, header and
\* footer within their limits, every section with rows and a title within
\* its limit, every row with id and title.
OnlyRowLengthsOpen(a) ==
    /\ IsListPayload(a)
    /\ Len(a.sections.items) <= 10
    /\ Len(a.button_text.s) <= 20
    /\ ~TextOver(a.header, 60)
    /\ ~TextOver(a.footer, 60)
    /\ RawRowTotal(a.sections.items) <= 10
    /\ \A i \in 1..Len(a.sections.items) :
           LET section == a.sections.items[i]
           IN  /\ "rows" \in DOMAIN section.kv
               /\ "title" \in DOMAIN section.kv =>
                      Len(section.kv["title"].s) <= 24
               /\ \A j \in 1..Len(RawRows(section)) :
                      {"id", "title"} \subseteq DOMAIN RawRows(section)[j].kv

\* The first length a row exceeds, as the offending value and the limit;
\* <<>> if it exceeds none.
RowOffence(row) ==
    IF Len(row.kv["id"].s) > 200 THEN <<row.kv["id"].s, "200">>
    ELSE IF Len(row.kv["title"].s) > 24 THEN <<row.kv["title"].s, "24">>
    ELSE IF "description" \in DOMAIN row.kv
            /\ Len(row.kv["description"].s) > 72
    THEN <<row.kv["description"].s, "72">>
    ELSE <<>>

\* C17: in a list payload of the declared type that passes every other
\* check, the call is refused exactly when some row has an id of more than
\* 200, a title of more than 24 or a description of more than 72 characters,
\* with an error that echoes the offending value of the first such row and
\* contains "exceeds <limit> characters"; otherwise (lengths of exactly 200,
\* 24 and 72 included) every row is sent, with its description, or with no
\* description (null) where the description is absent or empty.
C17_RowLimits ==
    \A r \in Records :
        (r.op = "send_message_with_list" /\ OnlyRowLengthsOpen(r.args))
        =>
        LET rows == AllRows(r.args.sections.items)
            over == {j \in 1..Len(rows) : RowOffence(rows[j]) # <<>>}
        IN  IF over # {}
            THEN LET offence == RowOffence(rows[First(over)])
                 IN  /\ IsFailure(r)
                     /\ r.sent = <<>>
                     /\ IsSubstring("'" \o offence[1] \o "'",
                                    Field(r, "error").s)
                     /\ IsSubstring("exceeds " \o offence[2] \o " characters",
                                    Field(r, "error").s)
            ELSE /\ Len(r.sent) = 1
                 /\ LET out == SentRows(r.sent[1].kwargs.buttons.attrs.sections.items)
                    IN  /\ Len(out) = Len(rows)
                        /\ \A j \in 1..Len(rows) :
                               /\ out[j].attrs.callback_data = rows[j].kv["id"]
                               /\ out[j].attrs.title = rows[j].kv["title"]
                               /\ out[j].attrs.description =
                                      IF "description" \in DOMAIN rows[j].kv
                                         /\ rows[j].kv["description"].s # ""
                                      THEN rows[j].kv["description"]
                                      ELSE None

\* A section of three rows is sent: one with id, title and description of
\* exactly 200, 24 and 72 characters, kept as they are, one with an empty
\* description and one with none, both sent without a description.
C17_Witness ==
    \E r \in Records :
        /\ r.op = "send_message_with_list"
        /\ AllRows(r.args.sections.items) =
               <<RowAtLimits, RowEmptyDescription, GoodRow>>
        /\ Len(r.sent) = 1
        /\ LET out == SentRows(r.sent[1].kwargs.buttons.attrs.sections.items)
           IN  /\ Len(out[1].attrs.callback_data.s) = 200
               /\ Len(out[1].attrs.title.s) = 24
               /\ Len(out[1].attrs.description.s) = 72
               /\ out[2].attrs.description = None
               /\ out[3].attrs.description = None

\* Every section of a list payload has a rows array without rows.
EverySectionEmpty(a) ==
    /\ a.sections.t = "list"
    /\ \A i \in 1..Len(a.sections.items) :
           LET section == a.sections.items[i]
           IN  /\ section.t = "dict"
               /\ "rows" \in DOMAIN section.kv
               /\ section.kv["rows"] = List(<<>>)
               /\ "title" \in DOMAIN section.kv => section.kv["title"].t = "str"

\* Button text, header and footer of a list payload are within their limits.
TextsWithinLimits(a) ==
    /\ a.button_text.t = "str" /\ Len(a.button_text.s) <= 20
    /\ ~TextOver(a.header, 60)
    /\ ~TextOver(a.footer, 60)

\* The call reached the transport once, with a section list of no sections.
SentEmptySectionList(r) ==
    /\ Len(r.sent) = 1
    /\ r.sent[1].kwargs.buttons.cls = "SectionList"
    /\ r.sent[1].kwargs.buttons.attrs.sections = List(<<>>)

\* C18, as claimed: a list payload without sections, or whose sections all
\* have zero rows, with button text, header and footer within their limits,
\* passes validation and reaches the transport once with a section list of
\* no sections.
C18_EmptyListIsSent ==
    \A r \in Records :
        (/\ r.op = "send_message_with_list"
         /\ EverySectionEmpty(r.args)
         /\ TextsWithinLimits(r.args))
        => SentEmptySectionList(r)

\* C18, amended: the same, for payloads of at most 10 sections whose section
\* titles have at most 24 characters; with more sections or a longer title
\* the payload is refused although its normalized section list is empty.
C18_EmptyListWithinCapsIsSent ==
    \A r \in Records :
        (/\ r.op = "send_message_with_list"
         /\ EverySectionEmpty(r.args)
         /\ TextsWithinLimits(r.args))
        =>
        LET sections == r.args.sections.items
            title_over == {i \in 1..Len(sections) :
                              /\ "title" \in DOMAIN sections[i].kv
                              /\ Len(sections[i].kv["title"].s) > 24}
        IN  IF Len(sections) > 10
            THEN /\ IsFailure(r)
                 /\ Field(r, "error") = Str("Maximum 10 sections allowed")
                 /\ r.sent = <<>>
            ELSE IF title_over # {}
            THEN /\ IsFailure(r)
                 /\ IsSubstring("exceeds 24 characters", Field(r, "error").s)
                 /\ r.sent = <<>>
            ELSE SentEmptySectionList(r)

\* Two sections, both without rows: the transport is called once with a
\* section list of no sections, and the call reports success.
C18_Witness ==
    \E r \in Records :
        /\ r.op = "send_message_with_list"
        /\ Len(r.args.sections.items) = 2
        /\ EverySectionEmpty(r.args)
        /\ TextsWithinLimits(r.args)
        /\ SentEmptySectionList(r)
        /\ IsSuccess(r)

=============================================================================
